---- MODULE Spec2Model ----
\* Verification model of the Bitcoin primitives of ChainSystemPro:
\* Base58Check (pkg/encoding), transaction builder / codec and coin selection
\* (pkg/bitcoin), HD wallet path derivation (pkg/crypto).
\*
\* Conventions
\*   - a Go string or []byte is a sequence: strings are sequences of
\*     one-character strings, byte slices are sequences of 0..255;
\*   - a uint32 is a big-endian pair of 16-bit limbs <<hi, lo>>, a uint64 four
\*     limbs, so that 2^32 and 2^64 wrap-around is kept exactly (TLC integers
\*     stop at 2^31 - 1);
\*   - SHA-256, SHA-512, RIPEMD-160, HMAC, PBKDF2 (bip39 seed), the BIP39
\*     word list and checksum, the secp256k1 group (bip32 keys) and ECDSA
\*     with the nonce of RFC 6979 are computed as the libraries compute them.
EXTENDS Integers, Sequences, FiniteSets, TLC

VARIABLES
    enc,      \* Base58Check scenario: inputs, encoded text, decode result
    sel,      \* coin selection scenario: caller's UTXO list, target, result
    heap,     \* backing arrays of the Go slices held by builder and transactions
    tb,       \* the TransactionBuilder: version, inputs, outputs, locktime
    txs,      \* the Transactions returned by Build, oldest first
    ret,      \* outcome of the last builder-side operation
    wallets,  \* HDWallet instances, with the account and address derived last
    derived,  \* outcome of the last DerivePath call
    log,      \* history: the inputs and outputs the builder was given, in call order
    p2a,      \* PubKeyToAddress scenario: arguments and result
    msg,      \* signing scenario: the wire transaction and the last call on it
    num,      \* varint and fee scenarios: the argument and what was returned
    rpc,      \* RPC client scenario: the client, the call in progress and the server's answers
    bus,      \* event bus scenario: subscribers, the Publish calls in progress, history
    reg       \* chain registry scenario: the adapters map, the Register calls, the last query

vars == <<enc, sel, heap, tb, txs, ret, wallets, derived, log, p2a, msg, num, rpc, bus, reg>>

\* Body applied to a value that is computed once
Bind(value, Body(_)) == Body(value)

\* Body applied to values that are evaluated before Body is
Eager(x, Body(_)) == IF x = x THEN Body(x) ELSE Body(x)
Eager2(x, y, Body(_, _)) == IF x = x /\ y = y THEN Body(x, y) ELSE Body(x, y)

Byte == 16 * 16
Limb == Byte * Byte
HalfLimb == Limb \div 2

----------------------------------------------------------------------------
\* Fixed-width unsigned integers as big-endian sequences of 16-bit limbs.

\* uint32(n), uint64(n) for a literal 0 <= n < 2^31
U32(n) == <<n \div Limb, n % Limb>>
U64(n) == <<0, 0, n \div Limb, n % Limb>>

MaxUint32 == <<Limb - 1, Limb - 1>>
MaxUint64 == <<Limb - 1, Limb - 1, Limb - 1, Limb - 1>>

\* a + b with the carry out of the top limb: <<carry, wrapped sum>>
RECURSIVE WAddFrom(_, _, _, _, _)
WAddFrom(a, b, i, carry, acc) ==
    IF i = 0 THEN <<carry, acc>>
    ELSE LET s == a[i] + b[i] + carry
         IN WAddFrom(a, b, i - 1, s \div Limb, <<s % Limb>> \o acc)

WAddCarry(a, b) == WAddFrom(a, b, Len(a), 0, <<>>)

\* Go's a + b on unsigned integers of the width of a: wraps around
WAdd(a, b) == WAddCarry(a, b)[2]

\* a < b, a <= b on words of equal width
RECURSIVE WLessFrom(_, _, _)
WLessFrom(a, b, i) ==
    IF i > Len(a) THEN FALSE
    ELSE IF a[i] # b[i] THEN a[i] < b[i]
    ELSE WLessFrom(a, b, i + 1)

WLess(a, b) == WLessFrom(a, b, 1)
WLeq(a, b) == a = b \/ WLess(a, b)

WZero(w) == [i \in 1..w |-> 0]

\* little-endian bytes of a word (binary.Write with binary.LittleEndian)
RECURSIVE LittleEndian(_)
LittleEndian(a) ==
    IF a = <<>> THEN <<>>
    ELSE LittleEndian(Tail(a)) \o <<Head(a) % Byte, Head(a) \div Byte>>

----------------------------------------------------------------------------
\* Positional number systems on digit sequences (math/big in base58).

RECURSIVE StripZeros(_)
StripZeros(ds) ==
    IF ds # <<>> /\ Head(ds) = 0 THEN StripZeros(Tail(ds)) ELSE ds

RECURSIVE LeadingCount(_, _)
LeadingCount(s, x) ==
    IF s # <<>> /\ Head(s) = x THEN 1 + LeadingCount(Tail(s), x) ELSE 0

\* long division of the big-endian base-b number ds by d: <<quotient, remainder>>
RECURSIVE DivDigits(_, _, _, _, _)
DivDigits(ds, b, d, i, acc) ==
    IF i > Len(ds) THEN acc
    ELSE LET cur == acc[2] * b + ds[i]
         IN DivDigits(ds, b, d, i + 1, <<Append(acc[1], cur \div d), cur % d>>)

\* the digits in base `to` of the number written ds in base `from`
\* (no leading zeros; zero is the empty sequence, as big.Int.Bytes gives)
RECURSIVE ToBase(_, _, _)
ToBase(ds, from, to) ==
    Bind(StripZeros(ds), LAMBDA n :
       IF n = <<>> THEN <<>>
       ELSE Bind(DivDigits(n, from, to, 1, <<<<>>, 0>>),
                 LAMBDA qr : Append(ToBase(qr[1], from, to), qr[2])))

Repeat(b, n) == [i \in 1..n |-> b]

\* s[from..to], 1-based and inclusive; Go's s[from-1 : to]
Slice(s, from, to) == [i \in 1..(to - from + 1) |-> s[from + i - 1]]

Reverse(s) == [i \in 1..Len(s) |-> s[Len(s) + 1 - i]]

\* all sequences over S of length <= n
RECURSIVE SeqsUpTo(_, _)
SeqsUpTo(S, n) ==
    IF n = 0 THEN {<<>>}
    ELSE LET shorter == SeqsUpTo(S, n - 1)
         IN shorter \cup {Append(s, x) : s \in {t \in shorter : Len(t) = n - 1}, x \in S}

----------------------------------------------------------------------------
\* Digests. SHA-256 (FIPS 180-4), which crypto/sha256 implements. A 32-bit
\* word is <<hi, lo>>, two 16-bit limbs.

\* bitwise operations on 4-bit digits, tabulated
Bits4(n) == <<(n \div 8) % 2, (n \div 4) % 2, (n \div 2) % 2, n % 2>>
FromBits4(b) == 8 * b[1] + 4 * b[2] + 2 * b[3] + b[4]

\* x XOR y XOR z
Xor4 ==
    [a \in 0..15 |-> [b \in 0..15 |-> [c \in 0..15 |->
        FromBits4([i \in 1..4 |-> (Bits4(a)[i] + Bits4(b)[i] + Bits4(c)[i]) % 2])]]]

\* Ch(x, y, z) = (x AND y) XOR (NOT x AND z)
Ch4 ==
    [a \in 0..15 |-> [b \in 0..15 |-> [c \in 0..15 |->
        FromBits4([i \in 1..4 |-> IF Bits4(a)[i] = 1 THEN Bits4(b)[i] ELSE Bits4(c)[i]])]]]

\* Maj(x, y, z) = (x AND y) XOR (x AND z) XOR (y AND z)
Maj4 ==
    [a \in 0..15 |-> [b \in 0..15 |-> [c \in 0..15 |->
        FromBits4([i \in 1..4 |->
            IF Bits4(a)[i] + Bits4(b)[i] + Bits4(c)[i] >= 2 THEN 1 ELSE 0])]]]

\* a table of 4-bit digits applied to 16-bit limbs, to 32-bit words
Bitwise16(T, a, b, c) ==
    4096 * T[a \div 4096][b \div 4096][c \div 4096]
    + 256 * T[(a \div 256) % 16][(b \div 256) % 16][(c \div 256) % 16]
    + 16 * T[(a \div 16) % 16][(b \div 16) % 16][(c \div 16) % 16]
    + T[a % 16][b % 16][c % 16]

Bitwise32(T, x, y, z) == <<Bitwise16(T, x[1], y[1], z[1]), Bitwise16(T, x[2], y[2], z[2])>>

Xor32(x, y, z) == Bitwise32(Xor4, x, y, z)
Ch32(x, y, z) == Bitwise32(Ch4, x, y, z)
Maj32(x, y, z) == Bitwise32(Maj4, x, y, z)

TwoTo == <<1, 2, 4, 8, 16, 32, 64, 128, 256, 512, 1024, 2048, 4096, 8192, 16384, 32768,
           65536>>

\* the limbs <<hi, lo>> rotated right by m bits, 0 <= m < 16, p = 2^m, q = 2^(16 - m)
RotLimbs(hi, lo, p, q) == <<(hi \div p) + (lo % p) * q, (lo \div p) + (hi % p) * q>>

\* x rotated right by n bits, 0 < n < 32
RotR(x, n) ==
    IF n >= 16 THEN RotLimbs(x[2], x[1], TwoTo[n - 15], TwoTo[33 - n])
    ELSE RotLimbs(x[1], x[2], TwoTo[n + 1], TwoTo[17 - n])

\* x shifted right by n bits, 0 < n < 16
ShR(x, n) == <<x[1] \div TwoTo[n + 1], (x[2] \div TwoTo[n + 1]) + (x[1] % TwoTo[n + 1]) * TwoTo[17 - n]>>

\* addition modulo 2^32
Add32(x, y) == <<(x[1] + y[1] + (x[2] + y[2]) \div 65536) % 65536, (x[2] + y[2]) % 65536>>

BigSigma0(x) == Xor32(RotR(x, 2), RotR(x, 13), RotR(x, 22))
BigSigma1(x) == Xor32(RotR(x, 6), RotR(x, 11), RotR(x, 25))
SmallSigma0(x) == Xor32(RotR(x, 7), RotR(x, 18), ShR(x, 3))
SmallSigma1(x) == Xor32(RotR(x, 17), RotR(x, 19), ShR(x, 10))

ShaK ==
    <<
     <<17034, 12184>>, <<28983, 17553>>, <<46528, 64463>>, <<59829, 56229>>,
     <<14678, 49755>>, <<23025, 4593>>, <<37439, 33444>>, <<43804, 24277>>,
     <<55303, 43672>>, <<4739, 23297>>, <<9265, 34238>>, <<21772, 32195>>,
     <<29374, 23924>>, <<32990, 45566>>, <<39900, 1703>>, <<49563, 61812>>,
     <<58523, 27073>>, <<61374, 18310>>, <<4033, 40390>>, <<9228, 41420>>,
     <<11753, 11375>>, <<19060, 33962>>, <<23728, 43484>>, <<30457, 35034>>,
     <<38974, 20818>>, <<43057, 50797>>, <<45059, 10184>>, <<48985, 32711>>,
     <<50912, 3059>>, <<54695, 37191>>, <<1738, 25425>>, <<5161, 10599>>,
     <<10167, 2693>>, <<11803, 8504>>, <<19756, 28156>>, <<21304, 3347>>,
     <<25866, 29524>>, <<30314, 2747>>, <<33218, 51502>>, <<37490, 11397>>,
     <<41663, 59553>>, <<43034, 26187>>, <<49739, 35696>>, <<51052, 20899>>,
     <<53650, 59417>>, <<54937, 1572>>, <<62478, 13701>>, <<4202, 41072>>,
     <<6564, 49430>>, <<7735, 27656>>, <<10056, 30540>>, <<13488, 48309>>,
     <<14620, 3251>>, <<20184, 43594>>, <<23452, 51791>>, <<26670, 28659>>,
     <<29839, 33518>>, <<30885, 25455>>, <<33992, 30740>>, <<36039, 520>>,
     <<37054, 65530>>, <<42064, 27883>>, <<48889, 41975>>, <<50801, 30962>>
    >>

ShaInit ==
    <<
     <<27145, 58983>>, <<47975, 44677>>, <<15470, 62322>>, <<42319, 62778>>,
     <<20750, 21119>>, <<39685, 26764>>, <<8067, 55723>>, <<23520, 52505>>
    >>

\* the message with its padding: 0x80, zeros, and the length in bits as 8
\* bytes, big-endian (messages of the model are shorter than 8192 bytes)
ShaPad(data) ==
    data \o <<128>> \o [i \in 1..((119 - (Len(data) % 64)) % 64) |-> 0]
    \o <<0, 0, 0, 0, 0, 0, (8 * Len(data)) \div 256, (8 * Len(data)) % 256>>

\* the big-endian word i of the block that starts at byte `at`
ShaWord(m, at, i) ==
    <<256 * m[at + 4 * i - 4] + m[at + 4 * i - 3], 256 * m[at + 4 * i - 2] + m[at + 4 * i - 1]>>

\* the words lo..hi of the block that starts at byte `at`, by halves
RECURSIVE ShaBlock(_, _, _, _)
ShaBlock(m, at, lo, hi) ==
    IF lo < hi
    THEN ShaBlock(m, at, lo, (lo + hi) \div 2) \o ShaBlock(m, at, (lo + hi) \div 2 + 1, hi)
    ELSE <<ShaWord(m, at, lo)>>

\* the schedule w of words 1..lo-1 extended by the words lo..hi, by halves;
\* the schedule so far is evaluated before it is extended
RECURSIVE ShaExtend(_, _, _)
ShaExtend(w, lo, hi) ==
    IF lo < hi /\ Len(w) < lo
    THEN ShaExtend(ShaExtend(w, lo, (lo + hi) \div 2), (lo + hi) \div 2 + 1, hi)
    ELSE Append(w, Add32(Add32(SmallSigma1(w[lo - 2]), w[lo - 7]),
                         Add32(SmallSigma0(w[lo - 15]), w[lo - 16])))

\* the 64 words of the schedule of a block
ShaSchedule(block) == ShaExtend(block, 17, 64)

\* the working variables a..h after a round with the sums t1 and t2
ShaStep(v, t1, t2) == <<Add32(t1, t2), v[1], v[2], v[3], Add32(v[4], t1), v[5], v[6], v[7]>>

\* one round on the working variables a..h with the word x and the constant k
ShaRound(v, x, k) ==
    ShaStep(v,
            Add32(Add32(Add32(v[8], BigSigma1(v[5])), Ch32(v[5], v[6], v[7])), Add32(k, x)),
            Add32(BigSigma0(v[1]), Maj32(v[1], v[2], v[3])))

\* the rounds lo..hi, by halves; the variables are evaluated before the next
\* round reads them
RECURSIVE ShaRounds(_, _, _, _)
ShaRounds(v, w, lo, hi) ==
    IF lo < hi /\ Len(v) = 8
    THEN ShaRounds(ShaRounds(v, w, lo, (lo + hi) \div 2), w, (lo + hi) \div 2 + 1, hi)
    ELSE ShaRound(v, w[lo], ShaK[lo])

\* the hash value after a block: each word plus the working variable
ShaAdd(h, v) ==
    <<Add32(h[1], v[1]), Add32(h[2], v[2]), Add32(h[3], v[3]), Add32(h[4], v[4]),
      Add32(h[5], v[5]), Add32(h[6], v[6]), Add32(h[7], v[7]), Add32(h[8], v[8])>>

RECURSIVE ShaBlocks(_, _, _)
ShaBlocks(m, at, h) ==
    IF at > Len(m) THEN h
    ELSE ShaBlocks(m, at + 64,
                   ShaAdd(h, ShaRounds(h, ShaSchedule(ShaBlock(m, at, 1, 16)), 1, 64)))

\* the bytes of a 32-bit word, big-endian
WordBigEndian(x) == <<x[1] \div 256, x[1] % 256, x[2] \div 256, x[2] % 256>>

\* the bytes of 32-bit words lo..hi of h, each big-endian
RECURSIVE WordsBigEndian(_, _, _)
WordsBigEndian(h, lo, hi) ==
    IF lo < hi
    THEN WordsBigEndian(h, lo, (lo + hi) \div 2) \o WordsBigEndian(h, (lo + hi) \div 2 + 1, hi)
    ELSE WordBigEndian(h[lo])

\* sha256.Sum256
Sum256(data) == WordsBigEndian(ShaBlocks(ShaPad(data), 1, ShaInit), 1, 8)

\* doubleSHA256 performs double SHA256 hashing
doubleSHA256(data) == Sum256(Sum256(data))

----------------------------------------------------------------------------
\* Base58 (github.com/btcsuite/btcd/btcutil/base58) and Base58Check.

B58Alphabet ==
    <<"1", "2", "3", "4", "5", "6", "7", "8", "9",
      "A", "B", "C", "D", "E", "F", "G", "H", "J", "K", "L", "M", "N", "P", "Q",
      "R", "S", "T", "U", "V", "W", "X", "Y", "Z",
      "a", "b", "c", "d", "e", "f", "g", "h", "i", "j", "k", "m", "n", "o", "p",
      "q", "r", "s", "t", "u", "v", "w", "x", "y", "z">>

B58Radix == Len(B58Alphabet)

IsB58Char(c) == \E i \in 1..B58Radix : B58Alphabet[i] = c

\* the digit value of an alphabet character
B58Digit(c) == (CHOOSE i \in 1..B58Radix : B58Alphabet[i] = c) - 1

\* base58.Encode: the number in base 58, one "1" for every leading zero byte
Base58Encode(b) ==
    LET digits == ToBase(b, Byte, B58Radix)
    IN Repeat("1", LeadingCount(b, 0))
       \o [i \in 1..Len(digits) |-> B58Alphabet[digits[i] + 1]]

\* base58.Decode: empty on any character outside the alphabet; otherwise one
\* zero byte for every leading "1", then the bytes of the number
Base58Decode(s) ==
    IF \E i \in 1..Len(s) : ~IsB58Char(s[i]) THEN <<>>
    ELSE Repeat(0, LeadingCount(s, "1"))
         \o ToBase([i \in 1..Len(s) |-> B58Digit(s[i])], B58Radix, Byte)

\* the nil []byte, distinct from the empty slice
NilBytes == <<-1>>

ChecksumLen == 4

\* EncodeBase58Check encodes data with Base58Check encoding
EncodeBase58Check(version, payload) ==
    LET versionedPayload == <<version>> \o payload
        checksum == SubSeq(doubleSHA256(versionedPayload), 1, ChecksumLen)
        fullPayload == versionedPayload \o checksum
    IN Base58Encode(fullPayload)

\* DecodeBase58Check with a wrong slice bound: the payload keeps the first
\* checksum byte
DecodeBase58Check_ShortChecksum(encoded) ==
    LET decoded == Base58Decode(encoded)
        n == Len(decoded)
    IN IF n < ChecksumLen + 1
       THEN [version |-> 0, payload |-> NilBytes, err |-> "too short"]
       ELSE IF \E i \in 1..ChecksumLen :
                  decoded[n - ChecksumLen + i]
                      # doubleSHA256(Slice(decoded, 1, n - ChecksumLen))[i]
            THEN [version |-> 0, payload |-> NilBytes, err |-> "invalid checksum"]
            ELSE [version |-> decoded[1],
                  payload |-> Slice(decoded, 2, n - ChecksumLen + 1),
                  err |-> "nil"]

\* DecodeBase58Check comparing one checksum byte too few
DecodeBase58Check_ThreeBytes(encoded) ==
    LET decoded == Base58Decode(encoded)
        n == Len(decoded)
    IN IF n < ChecksumLen + 1
       THEN [version |-> 0, payload |-> NilBytes, err |-> "too short"]
       ELSE IF \E i \in 1..(ChecksumLen - 1) :
                  decoded[n - ChecksumLen + i]
                      # doubleSHA256(Slice(decoded, 1, n - ChecksumLen))[i]
            THEN [version |-> 0, payload |-> NilBytes, err |-> "invalid checksum"]
            ELSE [version |-> decoded[1],
                  payload |-> Slice(decoded, 2, n - ChecksumLen),
                  err |-> "nil"]

\* DecodeBase58Check decodes a Base58Check encoded string
DecodeBase58Check(encoded) ==
    LET decoded == Base58Decode(encoded)
        n == Len(decoded)
    IN IF n < ChecksumLen + 1
       THEN [version |-> 0, payload |-> NilBytes, err |-> "too short"]
       ELSE LET checksumReceived == Slice(decoded, n - ChecksumLen + 1, n)
                checksumCalculated ==
                    SubSeq(doubleSHA256(Slice(decoded, 1, n - ChecksumLen)), 1, ChecksumLen)
            IN IF \E i \in 1..ChecksumLen : checksumReceived[i] # checksumCalculated[i]
               THEN [version |-> 0, payload |-> NilBytes, err |-> "invalid checksum"]
               ELSE [version |-> decoded[1],
                     payload |-> Slice(decoded, 2, n - ChecksumLen),
                     err |-> "nil"]

----------------------------------------------------------------------------
\* Address version bytes and address-to-script conversion (pkg/bitcoin).

P2PKHVersionMainnet == 0
P2PKHVersionTestnet == 111
P2SHVersionMainnet == 5
P2SHVersionTestnet == 196

\* addressToScriptPubKey converts a Bitcoin address to a scriptPubKey
addressToScriptPubKey(address) ==
    Bind(DecodeBase58Check(address), LAMBDA d :
       IF d.err # "nil"
       THEN [script |-> NilBytes, err |-> "failed to decode address"]
       ELSE IF d.version = P2PKHVersionMainnet \/ d.version = P2PKHVersionTestnet
       THEN \* OP_DUP OP_HASH160 <push 20> pubKeyHash OP_EQUALVERIFY OP_CHECKSIG
            [script |-> <<118, 169, 20>> \o d.payload \o <<136, 172>>, err |-> "nil"]
       ELSE IF d.version = P2SHVersionMainnet \/ d.version = P2SHVersionTestnet
       THEN \* OP_HASH160 <push 20> scriptHash OP_EQUAL
            [script |-> <<169, 20>> \o d.payload \o <<135>>, err |-> "nil"]
       ELSE [script |-> NilBytes, err |-> "unsupported address type"])

----------------------------------------------------------------------------
\* Scenario SpecBase58: one version byte and payload, or one arbitrary text,
\* pushed through EncodeBase58Check, DecodeBase58Check and
\* addressToScriptPubKey.

MaxPayloadLen == 2

PayloadBytes == {0, 1, 255}

B58Versions ==
    {P2PKHVersionMainnet, P2PKHVersionTestnet, P2SHVersionMainnet,
     P2SHVersionTestnet, 1, 255}

\* short payloads of every shape, and the 20-byte hashes addresses carry
B58Payloads ==
    SeqsUpTo(PayloadBytes, MaxPayloadLen) \cup {Repeat(1, 20), Repeat(0, 20)}

\* version || payload || checksum, as EncodeBase58Check builds it
WithChecksum(version, payload) ==
    <<version>> \o payload \o SubSeq(doubleSHA256(<<version>> \o payload), 1, ChecksumLen)

\* the bytes with the byte at position k off by one
CorruptAt(full, k) == [full EXCEPT ![k] = (@ + 1) % Byte]

\* positions worth corrupting: the version byte and each checksum byte
CorruptPositions(payload) ==
    {1} \cup {1 + Len(payload) + i : i \in 1..ChecksumLen}

\* texts that no encoder produced: empty, too short, outside the alphabet,
\* and well-formed texts of these versions and payloads with one byte of the
\* decoded string changed
RawTexts(versions, payloads) ==
    {<<>>, <<"1">>, <<"1", "1", "1", "1">>, <<"1", "1", "1", "1", "1">>,
     <<"i", "n", "v", "a", "l", "i", "d">>, <<"0", "O", "I", "l">>,
     <<"2", "z", "z", "z", "z", "z", "z">>}
    \cup UNION {LET full == WithChecksum(v, p)
                IN {Base58Encode(CorruptAt(full, k)) : k \in CorruptPositions(p)} :
                    v \in versions, p \in payloads}

NoDecode == [version |-> 0, payload |-> NilBytes, err |-> "none"]
NoScript == [script |-> NilBytes, err |-> "none"]

EncIdle ==
    [stage |-> "idle", version |-> 0, payload |-> <<>>, text |-> <<>>,
     encoded |-> FALSE, result |-> NoDecode, script |-> NoScript]

InitBase58 ==
    \/ \E v \in B58Versions, p \in B58Payloads :
           enc = [EncIdle EXCEPT !.stage = "input", !.version = v, !.payload = p]
    \/ \E t \in RawTexts(B58Versions, SeqsUpTo(PayloadBytes, MaxPayloadLen)) :
           enc = [EncIdle EXCEPT !.stage = "text", !.text = t]

Encode ==
    /\ enc.stage = "input"
    /\ enc' = [enc EXCEPT !.stage = "text", !.encoded = TRUE,
                          !.text = EncodeBase58Check(enc.version, enc.payload)]
    /\ UNCHANGED <<reg, bus, rpc, num, p2a, msg, sel, heap, tb, txs, ret, log, wallets, derived>>

Decode ==
    /\ enc.stage = "text"
    /\ enc' = [enc EXCEPT !.stage = "decoded",
                          !.result = DecodeBase58Check(enc.text)]
    /\ UNCHANGED <<reg, bus, rpc, num, p2a, msg, sel, heap, tb, txs, ret, log, wallets, derived>>

ToScript ==
    /\ enc.stage = "text"
    /\ enc' = [enc EXCEPT !.stage = "script",
                          !.script = addressToScriptPubKey(enc.text)]
    /\ UNCHANGED <<reg, bus, rpc, num, p2a, msg, sel, heap, tb, txs, ret, log, wallets, derived>>

----------------------------------------------------------------------------
\* Coin selection (pkg/bitcoin). A UTXO is
\* [TxID, Vout, Amount (uint64), Confirmations].

AlgorithmFIFO == "fifo"
AlgorithmLargestFirst == "largest-first"

\* the loop of selectFIFO from element i on: <<selected, total>>
RECURSIVE selectFIFOFrom(_, _, _, _, _)
selectFIFOFrom(utxos, targetAmount, i, selected, total) ==
    IF i > Len(utxos) THEN <<selected, total>>
    ELSE LET sel1 == Append(selected, utxos[i])
             total1 == WAdd(total, utxos[i].Amount)
         IN IF WLeq(targetAmount, total1) THEN <<sel1, total1>>
            ELSE selectFIFOFrom(utxos, targetAmount, i + 1, sel1, total1)

\* selectFIFO selects UTXOs in order until target is met
selectFIFO(utxos, targetAmount) ==
    selectFIFOFrom(utxos, targetAmount, 1, <<>>, WZero(4))

\* sort.Slice with less(i, j) = Amount[i] > Amount[j]; below 12 elements the
\* library sorts by insertion, which keeps equal amounts in input order
RECURSIVE InsertDesc(_, _)
InsertDesc(sorted, u) ==
    IF sorted = <<>> THEN <<u>>
    ELSE IF WLess(Head(sorted).Amount, u.Amount) THEN <<u>> \o sorted
    ELSE <<Head(sorted)>> \o InsertDesc(Tail(sorted), u)

RECURSIVE SortDesc(_, _)
SortDesc(utxos, i) ==
    IF i = 0 THEN <<>> ELSE InsertDesc(SortDesc(utxos, i - 1), utxos[i])

\* The memory of a call is a sequence of arrays and a slice is the index of
\* its array: make allocates a new array, copy and sort.Slice write the array
\* they are given.

\* selectLargestFirst selects largest UTXOs first, on a sorted copy
selectLargestFirst(mem, utxos, targetAmount) ==
    LET made == Append(mem, Repeat(0, Len(mem[utxos])))
        sortedUTXOs == Len(made)
        copied == [made EXCEPT ![sortedUTXOs] = made[utxos]]
        sorted == [copied EXCEPT ![sortedUTXOs] = SortDesc(@, Len(@))]
    IN [mem |-> sorted, r |-> selectFIFO(sorted[sortedUTXOs], targetAmount)]

\* what a failing call returns: nil, 0 and the error; `have` is the amount an
\* insufficient-funds error reports ("have %d, need %d")
NoSelection(e) == [selected |-> <<>>, total |-> WZero(4), err |-> e, have |-> WZero(4)]

\* SelectUTXOs selects UTXOs to meet the target amount: the memory after the
\* call and what the call returns
SelectUTXOs(mem, utxos, targetAmount, algorithm) ==
    IF Len(mem[utxos]) = 0
    THEN [mem |-> mem, result |-> NoSelection("no UTXOs available")]
    ELSE IF targetAmount = WZero(4)
    THEN [mem |-> mem, result |-> NoSelection("target amount must be greater than 0")]
    ELSE IF algorithm \notin {AlgorithmFIFO, AlgorithmLargestFirst}
    THEN [mem |-> mem, result |-> NoSelection("unknown algorithm")]
    ELSE LET c == IF algorithm = AlgorithmFIFO
                  THEN [mem |-> mem, r |-> selectFIFO(mem[utxos], targetAmount)]
                  ELSE selectLargestFirst(mem, utxos, targetAmount)
         IN [mem |-> c.mem,
             result |-> IF WLess(c.r[2], targetAmount)
                        THEN [NoSelection("insufficient funds") EXCEPT !.have = c.r[2]]
                        ELSE [selected |-> c.r[1], total |-> c.r[2], err |-> "nil",
                              have |-> WZero(4)]]

\* the sum of the amounts as a natural number: <<multiples of 2^64, rest>>
RECURSIVE MathSum(_)
MathSum(utxos) ==
    IF utxos = <<>> THEN <<0, WZero(4)>>
    ELSE LET rest == MathSum(Tail(utxos))
             s == WAddCarry(Head(utxos).Amount, rest[2])
         IN <<rest[1] + s[1], s[2]>>

\* Scenario SpecCoin: one call of SelectUTXOs on a caller's list.

MaxUtxos == 3

UtxoIds == <<"aa", "bb", "cc", "dd", "ee", "ff">>

CoinAmounts == {U64(1), U64(2), U64(5), <<HalfLimb, 0, 0, 0>>, MaxUint64}

CoinTargets == {U64(0), U64(3), U64(7), MaxUint64}

CoinAlgorithms == {AlgorithmFIFO, AlgorithmLargestFirst, "random"}

UtxoList(amounts) ==
    [i \in 1..Len(amounts) |->
        [TxID |-> UtxoIds[i], Vout |-> i - 1, Amount |-> amounts[i], Confirmations |-> i]]

SelIdle ==
    [stage |-> "idle", utxos |-> <<>>, target |-> WZero(4), algorithm |-> AlgorithmFIFO,
     result |-> NoSelection("none")]

\* lists of amounts close to 2^64, each with its target
SkewedAmount == <<39321, 0, 0, 0>>

ExplicitCoinInputs ==
    {<<<<U64(1), SkewedAmount, SkewedAmount, SkewedAmount>>, <<39321, 0, 0, 1>>>>,
     <<<<SkewedAmount, SkewedAmount, SkewedAmount>>, <<39321, 0, 0, 1>>>>,
     <<<<U64(5), U64(1), U64(2), U64(5), U64(1)>>, U64(7)>>}

CoinInputs == (SeqsUpTo(CoinAmounts, MaxUtxos) \X CoinTargets) \cup ExplicitCoinInputs

InitCoin ==
    \E in \in CoinInputs, a \in CoinAlgorithms :
        sel = [SelIdle EXCEPT !.stage = "input", !.utxos = UtxoList(in[1]),
                              !.target = in[2], !.algorithm = a]

\* the caller's list is the first array of the memory of the call
Select ==
    /\ sel.stage = "input"
    /\ LET c == SelectUTXOs(<<sel.utxos>>, 1, sel.target, sel.algorithm)
       IN sel' = [sel EXCEPT !.stage = "done", !.result = c.result, !.utxos = c.mem[1]]
    /\ UNCHANGED <<reg, bus, rpc, num, p2a, msg, enc, heap, tb, txs, ret, log, wallets, derived>>

----------------------------------------------------------------------------
\* encoding/hex

HexDigits == <<"0", "1", "2", "3", "4", "5", "6", "7", "8", "9",
               "a", "b", "c", "d", "e", "f">>
HexUpper == <<"A", "B", "C", "D", "E", "F">>

IsHexChar(c) ==
    \/ \E i \in 1..Len(HexDigits) : HexDigits[i] = c
    \/ \E i \in 1..Len(HexUpper) : HexUpper[i] = c

HexValue(c) ==
    IF \E i \in 1..Len(HexDigits) : HexDigits[i] = c
    THEN (CHOOSE i \in 1..Len(HexDigits) : HexDigits[i] = c) - 1
    ELSE (CHOOSE i \in 1..Len(HexUpper) : HexUpper[i] = c) + 9

\* hex.DecodeString: an error on a character that is no hex digit or on an
\* odd length
HexDecodeString(s) ==
    IF (\E i \in 1..Len(s) : ~IsHexChar(s[i])) \/ Len(s) % 2 = 1
    THEN [bytes |-> <<>>, err |-> "invalid hex"]
    ELSE [bytes |-> [i \in 1..(Len(s) \div 2) |->
                        16 * HexValue(s[2 * i - 1]) + HexValue(s[2 * i])],
          err |-> "nil"]

\* hex.EncodeToString: two lower-case digits per byte
HexEncodeToString(b) ==
    [i \in 1..(2 * Len(b)) |->
        IF i % 2 = 1 THEN HexDigits[(b[(i + 1) \div 2] \div 16) + 1]
        ELSE HexDigits[(b[i \div 2] % 16) + 1]]

----------------------------------------------------------------------------
\* Transaction codec (pkg/bitcoin). A transaction value is
\* [Version, Inputs, Outputs, Locktime] with Inputs a sequence of
\* [PrevTxID, PrevVout, ScriptSig, Sequence] and Outputs a sequence of
\* [Amount, ScriptPubKey].

BytesOf(b) == IF b = NilBytes THEN <<>> ELSE b

\* writeVarInt treating 0xfd as a one-byte value
writeVarInt_Late(n) ==
    IF WLeq(n, U64(253)) THEN <<n[4]>>
    ELSE IF WLeq(n, <<0, 0, 0, Limb - 1>>) THEN <<253>> \o LittleEndian(<<n[4]>>)
    ELSE IF WLeq(n, <<0, 0, Limb - 1, Limb - 1>>) THEN <<254>> \o LittleEndian(<<n[3], n[4]>>)
    ELSE <<255>> \o LittleEndian(n)

\* writeVarInt writes a variable-length integer (n a uint64)
writeVarInt(n) ==
    IF WLess(n, U64(253)) THEN <<n[4]>>
    ELSE IF WLeq(n, <<0, 0, 0, Limb - 1>>) THEN <<253>> \o LittleEndian(<<n[4]>>)
    ELSE IF WLeq(n, <<0, 0, Limb - 1, Limb - 1>>) THEN <<254>> \o LittleEndian(<<n[3], n[4]>>)
    ELSE <<255>> \o LittleEndian(n)

SerializeInput(input) ==
    Reverse(HexDecodeString(input.PrevTxID).bytes)
    \o LittleEndian(input.PrevVout)
    \o writeVarInt(U64(Len(BytesOf(input.ScriptSig))))
    \o BytesOf(input.ScriptSig)
    \o LittleEndian(input.Sequence)

SerializeOutput(output) ==
    LittleEndian(output.Amount)
    \o writeVarInt(U64(Len(BytesOf(output.ScriptPubKey))))
    \o BytesOf(output.ScriptPubKey)

RECURSIVE Concat(_)
Concat(ss) == IF ss = <<>> THEN <<>> ELSE Head(ss) \o Concat(Tail(ss))

\* Serialize leaving out a previous transaction id it cannot decode
Serialize_SkipBadTxid(tx) ==
    [hex |-> HexEncodeToString(
                 LittleEndian(tx.Version)
                 \o writeVarInt(U64(Len(tx.Inputs)))
                 \o Concat([i \in 1..Len(tx.Inputs) |-> SerializeInput(tx.Inputs[i])])
                 \o writeVarInt(U64(Len(tx.Outputs)))
                 \o Concat([i \in 1..Len(tx.Outputs) |-> SerializeOutput(tx.Outputs[i])])
                 \o LittleEndian(tx.Locktime)),
     err |-> "nil"]

\* Serialize serializes the transaction to hex; it stops at the first input
\* whose previous transaction id is not hex
Serialize(tx) ==
    IF \E i \in 1..Len(tx.Inputs) : HexDecodeString(tx.Inputs[i].PrevTxID).err # "nil"
    THEN [hex |-> <<>>, err |-> "invalid txid"]
    ELSE [hex |-> HexEncodeToString(
                      LittleEndian(tx.Version)
                      \o writeVarInt(U64(Len(tx.Inputs)))
                      \o Concat([i \in 1..Len(tx.Inputs) |-> SerializeInput(tx.Inputs[i])])
                      \o writeVarInt(U64(Len(tx.Outputs)))
                      \o Concat([i \in 1..Len(tx.Outputs) |-> SerializeOutput(tx.Outputs[i])])
                      \o LittleEndian(tx.Locktime)),
          err |-> "nil"]

\* Hash dropping the error of Serialize: it hashes whatever came back
Hash_IgnoreError(tx) ==
    LET serialized == Serialize(tx)
        data == HexDecodeString(serialized.hex).bytes
    IN HexEncodeToString(Reverse(Sum256(Sum256(data))))

\* Hash calculates the transaction hash (TXID); empty when Serialize fails
Hash(tx) ==
    Bind(Serialize(tx), LAMBDA serialized :
       IF serialized.err # "nil" THEN <<>>
       ELSE HexEncodeToString(
                Reverse(Sum256(Sum256(HexDecodeString(serialized.hex).bytes)))))

----------------------------------------------------------------------------
\* Go slices. A slice is a header [ptr, len, cap] into a backing array of the
\* heap (ptr = 0: no array); slices that share an array share its cells. The
\* heap keeps the arrays of each element type apart: [inputs, outputs].

EmptySlice == [ptr |-> 0, len |-> 0, cap |-> 0]
EmptyHeap == [inputs |-> <<>>, outputs |-> <<>>]

\* the elements a slice header gives access to
Deref(h, s) == [i \in 1..s.len |-> h[s.ptr][i]]

\* append(s, x): in place while the array has room, else into a new array of
\* doubled capacity (1 for an empty slice); <<heap, header>> after the call
GoAppend(h, s, x, zero) ==
    IF s.len < s.cap
    THEN [heap |-> [h EXCEPT ![s.ptr][s.len + 1] = x],
          slice |-> [s EXCEPT !.len = s.len + 1]]
    ELSE LET newcap == IF s.cap = 0 THEN 1 ELSE 2 * s.cap
             arr == [i \in 1..newcap |->
                        IF i <= s.len THEN h[s.ptr][i]
                        ELSE IF i = s.len + 1 THEN x ELSE zero]
         IN [heap |-> Append(h, arr),
             slice |-> [ptr |-> Len(h) + 1, len |-> s.len + 1, cap |-> newcap]]

ZeroInput ==
    [PrevTxID |-> <<>>, PrevVout |-> U32(0), ScriptSig |-> NilBytes, Sequence |-> U32(0)]
ZeroOutput == [Amount |-> U64(0), ScriptPubKey |-> NilBytes]

----------------------------------------------------------------------------
\* TransactionBuilder (pkg/bitcoin)

TxVersion == 2

\* NewTransactionBuilder creates a new transaction builder
NewTransactionBuilder ==
    [version |-> U32(TxVersion), inputs |-> EmptySlice, outputs |-> EmptySlice,
     locktime |-> U32(0)]

\* AddInput putting the new input in front: the elements already stored move
\* up inside the backing array when it has room
AddInput_Prepend(h, b, input) ==
    IF b.inputs.len > 0 /\ b.inputs.len < b.inputs.cap
    THEN [heap |-> [h EXCEPT !.inputs[b.inputs.ptr] =
                       [i \in 1..b.inputs.cap |->
                           IF i = 1 THEN input
                           ELSE IF i <= b.inputs.len + 1 THEN h.inputs[b.inputs.ptr][i - 1]
                           ELSE h.inputs[b.inputs.ptr][i]]],
          tb |-> [b EXCEPT !.inputs.len = @ + 1]]
    ELSE LET a == GoAppend(h.inputs, b.inputs, input, ZeroInput)
         IN [heap |-> [h EXCEPT !.inputs = a.heap], tb |-> [b EXCEPT !.inputs = a.slice]]

\* AddInput adds an input to the transaction
AddInput(h, b, input) ==
    LET a == GoAppend(h.inputs, b.inputs, input, ZeroInput)
    IN [heap |-> [h EXCEPT !.inputs = a.heap], tb |-> [b EXCEPT !.inputs = a.slice]]

\* the addresses AddOutput is called with: a P2PKH address, a P2SH address and
\* a string that is no address
AddrP2PKH == EncodeBase58Check(P2PKHVersionMainnet, Repeat(1, 20))
AddrP2SH == EncodeBase58Check(P2SHVersionTestnet, Repeat(3, 20))
AddrInvalid == <<"i", "n", "v", "a", "l", "i", "d">>

TxAddresses == {AddrP2PKH, AddrP2SH, AddrInvalid}

\* addressToScriptPubKey of these addresses, computed once
ScriptTable == [a \in TxAddresses |-> addressToScriptPubKey(a)]

scriptPubKeyOf(address) ==
    IF address \in TxAddresses THEN ScriptTable[address]
    ELSE addressToScriptPubKey(address)

\* AddOutput keeping an output with no script when the address is rejected
AddOutput_AppendOnError(h, b, address, amount) ==
    Bind(scriptPubKeyOf(address), LAMBDA conv :
        Bind(GoAppend(h.outputs, b.outputs,
                      [Amount |-> amount, ScriptPubKey |-> conv.script], ZeroOutput),
             LAMBDA a :
                [heap |-> [h EXCEPT !.outputs = a.heap],
                 tb |-> [b EXCEPT !.outputs = a.slice],
                 err |-> IF conv.err # "nil" THEN "invalid address" ELSE "nil"]))

\* AddOutput adds an output to the transaction, or fails on the address
AddOutput(h, b, address, amount) ==
    Bind(scriptPubKeyOf(address), LAMBDA conv :
       IF conv.err # "nil"
       THEN [heap |-> h, tb |-> b, err |-> "invalid address"]
       ELSE Bind(GoAppend(h.outputs, b.outputs,
                          [Amount |-> amount, ScriptPubKey |-> conv.script], ZeroOutput),
                 LAMBDA a :
                    [heap |-> [h EXCEPT !.outputs = a.heap],
                     tb |-> [b EXCEPT !.outputs = a.slice], err |-> "nil"]))

\* SetLocktime sets the locktime for the transaction
SetLocktime(b, locktime) == [b EXCEPT !.locktime = locktime]

NoTx == [Version |-> U32(0), Inputs |-> EmptySlice, Outputs |-> EmptySlice,
         Locktime |-> U32(0)]

\* Build checking the outputs before the inputs
Build_OutputsFirst(b) ==
    IF b.outputs.len = 0
    THEN [tx |-> NoTx, err |-> "transaction must have at least one output"]
    ELSE IF b.inputs.len = 0
    THEN [tx |-> NoTx, err |-> "transaction must have at least one input"]
    ELSE [tx |-> [Version |-> b.version, Inputs |-> b.inputs, Outputs |-> b.outputs,
                  Locktime |-> b.locktime],
          err |-> "nil"]

\* Build builds the transaction: the slice headers are copied, the arrays shared
Build(b) ==
    IF b.inputs.len = 0
    THEN [tx |-> NoTx, err |-> "transaction must have at least one input"]
    ELSE IF b.outputs.len = 0
    THEN [tx |-> NoTx, err |-> "transaction must have at least one output"]
    ELSE [tx |-> [Version |-> b.version, Inputs |-> b.inputs, Outputs |-> b.outputs,
                  Locktime |-> b.locktime],
          err |-> "nil"]

\* what a holder of the transaction reads through its slices
TxValue(h, tx) ==
    [Version |-> tx.Version, Inputs |-> Deref(h.inputs, tx.Inputs),
     Outputs |-> Deref(h.outputs, tx.Outputs), Locktime |-> tx.Locktime]

\* Scenario Spec: one builder, driven by AddInput, AddOutput, SetLocktime and
\* Build in any order, before and after a Build, and the transactions it
\* returned.
\* Scenario SpecCodec: a builder filled and built once, and the transaction
\* read by Serialize and Hash.

MaxInputs == 4
MaxOutputs == 3
MaxBuilds == 2
CodecMaxInputs == 2
CodecMaxOutputs == 2

GenesisTxId ==
    <<"4", "a", "5", "e", "1", "e", "4", "b", "a", "a", "b", "8", "9", "f", "3", "a",
      "3", "2", "5", "1", "8", "a", "8", "8", "c", "3", "1", "b", "c", "8", "7", "f",
      "6", "1", "8", "f", "7", "6", "6", "7", "3", "e", "2", "c", "c", "7", "7", "a",
      "b", "2", "1", "2", "7", "b", "7", "a", "f", "d", "e", "d", "a", "3", "3", "b">>

\* the arguments AddInput is called with: a transaction id, a short hex
\* string, a string that is not hex, a hex string of odd length
TxInputArgs ==
    {[PrevTxID |-> GenesisTxId, PrevVout |-> U32(0), ScriptSig |-> NilBytes,
      Sequence |-> MaxUint32],
     [PrevTxID |-> <<"A", "b", "c", "1", "2", "3">>, PrevVout |-> U32(1),
      ScriptSig |-> <<1, 2>>, Sequence |-> U32(0)],
     [PrevTxID |-> <<"i", "n", "v", "a", "l", "i", "d">>, PrevVout |-> U32(0),
      ScriptSig |-> NilBytes, Sequence |-> MaxUint32],
     [PrevTxID |-> <<"a", "b", "c">>, PrevVout |-> MaxUint32,
      ScriptSig |-> <<>>, Sequence |-> U32(0)]}

BuilderInputArgs ==
    {[PrevTxID |-> <<"a", "b", "c", "1", "2", "3">>, PrevVout |-> U32(0),
      ScriptSig |-> NilBytes, Sequence |-> MaxUint32],
     [PrevTxID |-> <<"i", "n", "v", "a", "l", "i", "d">>, PrevVout |-> U32(1),
      ScriptSig |-> <<1, 2>>, Sequence |-> U32(0)]}

\* the builder of scenario Spec spends output n of a transaction as its input
\* number n, the two kinds of argument in turn
BuilderInput(n) ==
    [(CHOOSE input \in BuilderInputArgs : input.PrevVout = U32(n % 2))
        EXCEPT !.PrevVout = U32(n)]

TxAmounts == {U64(100000)}
TxLocktimes == {U32(500000)}

NoRet == [op |-> "none", err |-> "nil", tx |-> 0, value |-> <<>>]
NoLog == [inputs |-> <<>>, outputs |-> <<>>, locktime |-> U32(0)]

InitTx ==
    /\ heap = EmptyHeap
    /\ tb = NewTransactionBuilder
    /\ txs = <<>>
    /\ ret = NoRet
    /\ log = NoLog

AddInputStep(args, max) ==
    \E input \in args :
        /\ tb.inputs.len < max
        /\ LET r == AddInput(heap, tb, input)
           IN /\ heap' = r.heap
              /\ tb' = r.tb
        /\ ret' = NoRet
        /\ log' = [log EXCEPT !.inputs = Append(@, input)]
        /\ UNCHANGED <<reg, bus, rpc, num, p2a, msg, txs, enc, sel, wallets, derived>>

\* max bounds the length of the output list, not the calls: a call that
\* leaves the list within the bound is taken, a rejected address included
AddOutputStep(max) ==
    \E address \in TxAddresses, amount \in TxAmounts :
        /\ Bind(AddOutput(heap, tb, address, amount), LAMBDA r :
              /\ r.tb.outputs.len <= max
              /\ heap' = r.heap
              /\ tb' = r.tb
              /\ ret' = [NoRet EXCEPT !.op = "AddOutput", !.err = r.err,
                                      !.value = <<address, amount>>]
              /\ log' = IF r.err = "nil"
                        THEN [log EXCEPT !.outputs = Append(@, <<address, amount>>)]
                        ELSE log)
        /\ UNCHANGED <<reg, bus, rpc, num, p2a, msg, txs, enc, sel, wallets, derived>>

SetLocktimeStep ==
    \E locktime \in TxLocktimes :
        /\ tb' = SetLocktime(tb, locktime)
        /\ ret' = NoRet
        /\ log' = [log EXCEPT !.locktime = locktime]
        /\ UNCHANGED <<reg, bus, rpc, num, p2a, msg, heap, txs, enc, sel, wallets, derived>>

BuildStep(max) ==
    /\ Len(txs) < max
    /\ LET r == Build(tb)
       IN /\ txs' = IF r.err = "nil" THEN Append(txs, r.tx) ELSE txs
          /\ ret' = [NoRet EXCEPT !.op = "Build", !.err = r.err,
                                  !.tx = IF r.err = "nil" THEN Len(txs) + 1 ELSE 0]
    /\ UNCHANGED <<reg, bus, rpc, num, p2a, msg, heap, tb, log, enc, sel, wallets, derived>>

CallAddInput == AddInputStep({BuilderInput(tb.inputs.len)}, MaxInputs)
CallAddOutput == AddOutputStep(MaxOutputs)
CallSetLocktime == SetLocktimeStep
CallBuild == BuildStep(MaxBuilds)

CodecAddInput == txs = <<>> /\ AddInputStep(TxInputArgs, CodecMaxInputs)
CodecAddOutput == txs = <<>> /\ AddOutputStep(CodecMaxOutputs)
CodecSetLocktime == txs = <<>> /\ SetLocktimeStep
CodecBuild == BuildStep(1)

CallSerialize ==
    \E i \in 1..Len(txs) :
        /\ ret.op = "Build"
        /\ Bind(Serialize(TxValue(heap, txs[i])), LAMBDA r :
               ret' = [op |-> "Serialize", err |-> r.err, tx |-> i, value |-> r.hex])
        /\ UNCHANGED <<reg, bus, rpc, num, p2a, msg, heap, tb, txs, log, enc, sel, wallets, derived>>

CallHash ==
    \E i \in 1..Len(txs) :
        /\ ret.op = "Build"
        /\ ret' = [op |-> "Hash", err |-> "nil", tx |-> i,
                   value |-> Hash(TxValue(heap, txs[i]))]
        /\ UNCHANGED <<reg, bus, rpc, num, p2a, msg, heap, tb, txs, log, enc, sel, wallets, derived>>

----------------------------------------------------------------------------
\* Keys (github.com/tyler-smith/go-bip39, go-bip32, btcec). The mnemonic is
\* validated as bip39 does; the seed is PBKDF2 with HMAC-SHA512, the keys
\* are HMAC-SHA512 and secp256k1, computed as the libraries compute them. A
\* key is [Key, ChainCode, Depth, ChildNumber], Key and ChainCode of 32 bytes.

\* the printable ASCII characters, 0x20 to 0x7e in order (the grave accent,
\* which a string of this language cannot hold, is spelled out)
AsciiPrintable ==
    <<" ", "!", "\"", "#", "$", "%", "&", "'", "(", ")", "*", "+", ",", "-", ".", "/",
      "0", "1", "2", "3", "4", "5", "6", "7", "8", "9", ":", ";", "<", "=", ">", "?",
      "@", "A", "B", "C", "D", "E", "F", "G", "H", "I", "J", "K", "L", "M", "N", "O",
      "P", "Q", "R", "S", "T", "U", "V", "W", "X", "Y", "Z", "[", "\\", "]", "^", "_",
      "GRAVE", "a", "b", "c", "d", "e", "f", "g", "h", "i", "j", "k", "l", "m", "n", "o",
      "p", "q", "r", "s", "t", "u", "v", "w", "x", "y", "z", "{", "|", "}", "~">>

\* the byte of a character: printable ASCII, tab, line feed, form feed or
\* carriage return
CharCode(c) ==
    IF c = "\t" THEN 9
    ELSE IF c = "\n" THEN 10
    ELSE IF c = "\f" THEN 12
    ELSE IF c = "\r" THEN 13
    ELSE 31 + CHOOSE i \in 1..Len(AsciiPrintable) : AsciiPrintable[i] = c

\* []byte(s) for a string s, a sequence of characters
Bytes(s) == [i \in 1..Len(s) |-> CharCode(s[i])] \o <<>>

\* unicode.IsSpace, for these characters
IsSpace(c) == c \in {" ", "\t", "\n", "\f", "\r"}

\* strings.Fields: the maximal runs of characters that are not white space,
\* in order; a run starts where a character that is not white space follows
\* white space or nothing
FieldStarts(s) == {i \in 1..Len(s) : ~IsSpace(s[i]) /\ (i = 1 \/ IsSpace(s[i - 1]))}

FieldEnd(s, i) ==
    IF \E j \in i..Len(s) : IsSpace(s[j])
    THEN (CHOOSE j \in i..Len(s) : IsSpace(s[j]) /\ \A k \in i..(j - 1) : ~IsSpace(s[k])) - 1
    ELSE Len(s)

FieldsAt(s, starts) ==
    [k \in 1..Cardinality(starts) |->
        Bind(CHOOSE i \in starts : Cardinality({j \in starts : j < i}) = k - 1,
             LAMBDA i : SubSeq(s, i, FieldEnd(s, i)))] \o <<>>

Fields(s) == FieldsAt(s, FieldStarts(s))

\* the word of a sequence of characters
RECURSIVE JoinChars(_)
JoinChars(w) == IF w = <<>> THEN "" ELSE w[1] \o JoinChars(Tail(w))

\* SHA-512 (FIPS 180-4), which crypto/sha512 implements. A 64-bit word is
\* four 16-bit limbs, the most significant first.

Bitwise64(T, x, y, z) ==
    <<Bitwise16(T, x[1], y[1], z[1]), Bitwise16(T, x[2], y[2], z[2]),
      Bitwise16(T, x[3], y[3], z[3]), Bitwise16(T, x[4], y[4], z[4])>>

Xor64(x, y, z) == Bitwise64(Xor4, x, y, z)
Ch64(x, y, z) == Bitwise64(Ch4, x, y, z)
Maj64(x, y, z) == Bitwise64(Maj4, x, y, z)

\* the limbs a, b, c, d rotated right by m bits, 0 <= m < 16, p = 2^m, q = 2^(16 - m)
RotLimbs64(a, b, c, d, p, q) ==
    <<(a \div p) + (d % p) * q, (b \div p) + (a % p) * q,
      (c \div p) + (b % p) * q, (d \div p) + (c % p) * q>>

\* x rotated right by n bits, 0 < n < 64
RotR64(x, n) ==
    IF n < 16 THEN RotLimbs64(x[1], x[2], x[3], x[4], TwoTo[n + 1], TwoTo[17 - n])
    ELSE IF n < 32 THEN RotLimbs64(x[4], x[1], x[2], x[3], TwoTo[n - 15], TwoTo[33 - n])
    ELSE IF n < 48 THEN RotLimbs64(x[3], x[4], x[1], x[2], TwoTo[n - 31], TwoTo[49 - n])
    ELSE RotLimbs64(x[2], x[3], x[4], x[1], TwoTo[n - 47], TwoTo[65 - n])

\* x shifted right by n bits, 0 < n < 16
ShR64(x, n) ==
    <<x[1] \div TwoTo[n + 1],
      (x[2] \div TwoTo[n + 1]) + (x[1] % TwoTo[n + 1]) * TwoTo[17 - n],
      (x[3] \div TwoTo[n + 1]) + (x[2] % TwoTo[n + 1]) * TwoTo[17 - n],
      (x[4] \div TwoTo[n + 1]) + (x[3] % TwoTo[n + 1]) * TwoTo[17 - n]>>

\* the word of the limb sums a, b, c, d, modulo 2^64
Carry64(a, b, c, d) ==
    <<(a + (b + (c + d \div 65536) \div 65536) \div 65536) % 65536,
      (b + (c + d \div 65536) \div 65536) % 65536,
      (c + d \div 65536) % 65536,
      d % 65536>>

\* addition modulo 2^64
Add64(x, y) == Carry64(x[1] + y[1], x[2] + y[2], x[3] + y[3], x[4] + y[4])

BigSigma0x64(x) == Xor64(RotR64(x, 28), RotR64(x, 34), RotR64(x, 39))
BigSigma1x64(x) == Xor64(RotR64(x, 14), RotR64(x, 18), RotR64(x, 41))
SmallSigma0x64(x) == Xor64(RotR64(x, 1), RotR64(x, 8), ShR64(x, 7))
SmallSigma1x64(x) == Xor64(RotR64(x, 19), RotR64(x, 61), ShR64(x, 6))

Sha512K ==
    <<
     <<17034, 12184, 55080, 44578>>, <<28983, 17553, 9199, 26061>>, <<46528, 64463, 60493, 15151>>,
     <<59829, 56229, 33161, 56252>>, <<14678, 49755, 62280, 46392>>, <<23025, 4593, 46597, 53273>>,
     <<37439, 33444, 44825, 20379>>, <<43804, 24277, 55917, 33048>>, <<55303, 43672, 41731, 578>>,
     <<4739, 23297, 17776, 28606>>, <<9265, 34238, 20196, 45708>>, <<21772, 32195, 54783, 46306>>,
     <<29374, 23924, 62075, 35183>>, <<32990, 45566, 15126, 38577>>, <<39900, 1703, 9671, 4661>>,
     <<49563, 61812, 53097, 9876>>, <<58523, 27073, 40689, 19154>>, <<61374, 18310, 14415, 9699>>,
     <<4033, 40390, 35724, 54709>>, <<9228, 41420, 30636, 40037>>, <<11753, 11375, 22827, 629>>,
     <<19060, 33962, 28326, 58499>>, <<23728, 43484, 48449, 64468>>, <<30457, 35034, 33553, 21429>>,
     <<38974, 20818, 61030, 57259>>, <<43057, 50797, 11700, 12816>>, <<45059, 10184, 39163, 8511>>,
     <<48985, 32711, 48879, 3812>>, <<50912, 3059, 15784, 36802>>, <<54695, 37191, 37642, 42789>>,
     <<1738, 25425, 57347, 33391>>, <<5161, 10599, 2574, 28272>>, <<10167, 2693, 18130, 12284>>,
     <<11803, 8504, 23590, 51494>>, <<19756, 28156, 23236, 10989>>, <<21304, 3347, 40341, 46047>>,
     <<25866, 29524, 35759, 25566>>, <<30314, 2747, 15479, 45736>>, <<33218, 51502, 18413, 44774>>,
     <<37490, 11397, 5250, 13627>>, <<41663, 59553, 19697, 868>>, <<43034, 26187, 48194, 12289>>,
     <<49739, 35696, 53496, 38801>>, <<51052, 20899, 1620, 48688>>, <<53650, 59417, 55023, 21016>>,
     <<54937, 1572, 21861, 43280>>, <<62478, 13701, 22385, 8234>>, <<4202, 41072, 12987, 53688>>,
     <<6564, 49430, 47314, 53448>>, <<7735, 27656, 20801, 43859>>, <<10056, 30540, 57230, 60313>>,
     <<13488, 48309, 57755, 18600>>, <<14620, 3251, 50633, 23139>>, <<20184, 43594, 58177, 35531>>,
     <<23452, 51791, 30563, 58227>>, <<26670, 28659, 54962, 47267>>, <<29839, 33518, 24047, 45820>>,
     <<30885, 25455, 17175, 12128>>, <<33992, 30740, 41456, 43890>>, <<36039, 520, 6756, 14828>>,
     <<37054, 65530, 9059, 7720>>, <<42064, 27883, 56962, 48617>>, <<48889, 41975, 45766, 30997>>,
     <<50801, 30962, 58226, 21291>>, <<51751, 16078, 59942, 24988>>, <<53638, 47303, 8640, 49671>>,
     <<60122, 32214, 52704, 60190>>, <<62845, 20351, 61038, 53624>>, <<1776, 26538, 29207, 28602>>,
     <<2659, 32197, 41672, 39078>>, <<4415, 38916, 48889, 3502>>, <<7025, 2869, 4892, 18203>>,
     <<10459, 30709, 8964, 32132>>, <<13002, 43899, 16583, 9363>>, <<15518, 48650, 5577, 48828>>,
     <<17181, 26564, 39952, 3404>>, <<19653, 54462, 52030, 17078>>, <<22911, 10652, 64613, 32298>>,
     <<24523, 28587, 15062, 64236>>, <<27716, 6540, 19015, 22551>>
    >>

Sha512Init ==
    <<
     <<27145, 58983, 62396, 51464>>, <<47975, 44677, 33994, 42811>>, <<15470, 62322, 65172, 63531>>,
     <<42319, 62778, 24349, 14065>>, <<20750, 21119, 44518, 33489>>, <<39685, 26764, 11070, 27679>>,
     <<8067, 55723, 64321, 48491>>, <<23520, 52505, 4990, 8569>>
    >>

\* the big-endian word i of the block that starts at byte `at`
Sha512Word(m, at, i) ==
    <<256 * m[at + 8 * i - 8] + m[at + 8 * i - 7], 256 * m[at + 8 * i - 6] + m[at + 8 * i - 5],
      256 * m[at + 8 * i - 4] + m[at + 8 * i - 3], 256 * m[at + 8 * i - 2] + m[at + 8 * i - 1]>>

\* the words lo..hi of the block that starts at byte `at`, by halves
RECURSIVE Sha512Block(_, _, _, _)
Sha512Block(m, at, lo, hi) ==
    IF lo < hi
    THEN Sha512Block(m, at, lo, (lo + hi) \div 2) \o Sha512Block(m, at, (lo + hi) \div 2 + 1, hi)
    ELSE <<Sha512Word(m, at, lo)>>

\* the schedule w of words 1..lo-1 extended by the words lo..hi, by halves;
\* the schedule so far is evaluated before it is extended
RECURSIVE Sha512Extend(_, _, _)
Sha512Extend(w, lo, hi) ==
    IF lo < hi /\ Len(w) < lo
    THEN Sha512Extend(Sha512Extend(w, lo, (lo + hi) \div 2), (lo + hi) \div 2 + 1, hi)
    ELSE Append(w, Add64(Add64(SmallSigma1x64(w[lo - 2]), w[lo - 7]),
                         Add64(SmallSigma0x64(w[lo - 15]), w[lo - 16])))

\* the working variables a..h after a round with the sums t1 and t2
Sha512Step(v, t1, t2) ==
    <<Add64(t1, t2), v[1], v[2], v[3], Add64(v[4], t1), v[5], v[6], v[7]>>

\* one round on the working variables a..h with the word x and the constant k
Sha512Round(v, x, k) ==
    Sha512Step(v,
               Add64(Add64(Add64(v[8], BigSigma1x64(v[5])), Ch64(v[5], v[6], v[7])),
                     Add64(k, x)),
               Add64(BigSigma0x64(v[1]), Maj64(v[1], v[2], v[3])))

\* the rounds lo..hi, by halves; the variables are evaluated before the next
\* round reads them
RECURSIVE Sha512Rounds(_, _, _, _)
Sha512Rounds(v, w, lo, hi) ==
    IF lo < hi /\ Len(v) = 8
    THEN Sha512Rounds(Sha512Rounds(v, w, lo, (lo + hi) \div 2), w, (lo + hi) \div 2 + 1, hi)
    ELSE Sha512Round(v, w[lo], Sha512K[lo])

\* the hash value after a block: each word plus the working variable
Sha512Add(h, v) ==
    <<Add64(h[1], v[1]), Add64(h[2], v[2]), Add64(h[3], v[3]), Add64(h[4], v[4]),
      Add64(h[5], v[5]), Add64(h[6], v[6]), Add64(h[7], v[7]), Add64(h[8], v[8])>>

\* the hash value h after the block of 16 words, both evaluated before the
\* rounds read them
Sha512Compress(h, block) ==
    IF Len(h) # 8 \/ Len(block) # 16 THEN h
    ELSE Eager(Sha512Extend(block, 17, 80), LAMBDA w : Sha512Add(h, Sha512Rounds(h, w, 1, 80)))

\* the hash value h after the blocks of m from byte `at` on
RECURSIVE Sha512Blocks(_, _, _)
Sha512Blocks(m, at, h) ==
    IF at > Len(m) \/ Len(h) # 8 THEN h
    ELSE Sha512Blocks(m, at + 128, Sha512Compress(h, Sha512Block(m, at, 1, 16)))

\* the data that follows `before` hashed bytes, with its padding: 0x80,
\* zeros, and the length in bits of all the bytes as 16 bytes, big-endian
\* (messages of the model are shorter than 2^20 bytes)
Sha512Pad(data, before) ==
    data \o <<128>> \o [i \in 1..((239 - (Len(data) % 128)) % 128) |-> 0]
    \o <<0, 0, 0, 0, 0, 0, 0, 0, 0, 0, 0, 0, 0,
         (8 * (before + Len(data))) \div 65536,
         ((8 * (before + Len(data))) \div 256) % 256,
         (8 * (before + Len(data))) % 256>>

\* the bytes of a 64-bit word, big-endian
Word64BigEndian(x) ==
    <<x[1] \div 256, x[1] % 256, x[2] \div 256, x[2] % 256,
      x[3] \div 256, x[3] % 256, x[4] \div 256, x[4] % 256>>

\* the bytes of the 64-bit words lo..hi of h, each big-endian
RECURSIVE Words64BigEndian(_, _, _)
Words64BigEndian(h, lo, hi) ==
    IF lo < hi
    THEN Words64BigEndian(h, lo, (lo + hi) \div 2) \o Words64BigEndian(h, (lo + hi) \div 2 + 1, hi)
    ELSE Word64BigEndian(h[lo])

\* sha512.Sum512
Sum512(data) ==
    Eager(Sha512Pad(data, 0), LAMBDA padded :
        Eager(Sha512Blocks(padded, 1, Sha512Init), LAMBDA h : Words64BigEndian(h, 1, 8)))

\* HMAC (RFC 2104) with SHA-512, which crypto/hmac implements: a key longer
\* than the block of 128 bytes is hashed, a shorter one padded with zeros
XorByte(a, b) == 16 * Xor4[a \div 16][b \div 16][0] + Xor4[a % 16][b % 16][0]

Hmac512Key(key) ==
    IF Len(key) > 128 THEN Sum512(key) \o [i \in 1..64 |-> 0]
    ELSE key \o [i \in 1..(128 - Len(key)) |-> 0]

\* the hash value after the block of the key with every byte XOR pad
Hmac512State(key, pad) ==
    Eager(Hmac512Key(key), LAMBDA k :
        Eager([i \in 1..128 |-> XorByte(k[i], pad)] \o <<>>, LAMBDA block :
            Sha512Blocks(block, 1, Sha512Init)))

\* the block that ends the outer and the inner hash of a 64-byte value:
\* its 8 words, 0x80, zeros and the length of 192 bytes in bits
Hmac512Tail ==
    <<<<32768, 0, 0, 0>>, <<0, 0, 0, 0>>, <<0, 0, 0, 0>>, <<0, 0, 0, 0>>,
      <<0, 0, 0, 0>>, <<0, 0, 0, 0>>, <<0, 0, 0, 0>>, <<0, 0, 0, 1536>>>>

\* the words of HMAC over data, given the hash values after the inner and
\* the outer key block
Hmac512Words(inner, outer, data) ==
    Eager(Sha512Pad(data, 128), LAMBDA padded :
        Eager(Sha512Blocks(padded, 1, inner), LAMBDA h :
            Sha512Compress(outer, h \o Hmac512Tail)))

\* hmac.New(sha512.New, key), Write(data), Sum(nil)
Hmac512(key, data) ==
    Eager2(Hmac512State(key, 54), Hmac512State(key, 92), LAMBDA inner, outer :
        Eager(Hmac512Words(inner, outer, data), LAMBDA h : Words64BigEndian(h, 1, 8)))

\* PBKDF2 (RFC 8018) with HMAC-SHA512 for a derived key of 64 bytes, one
\* block: U1 = HMAC(password, salt || 00000001), U(i+1) = HMAC(password, Ui),
\* and the key is U1 XOR ... XOR Uiter.  A state is <<Ui, U1 XOR ... XOR Ui>>.
Xor64x8(t, u) ==
    <<Xor64(t[1], u[1], <<0, 0, 0, 0>>), Xor64(t[2], u[2], <<0, 0, 0, 0>>),
      Xor64(t[3], u[3], <<0, 0, 0, 0>>), Xor64(t[4], u[4], <<0, 0, 0, 0>>),
      Xor64(t[5], u[5], <<0, 0, 0, 0>>), Xor64(t[6], u[6], <<0, 0, 0, 0>>),
      Xor64(t[7], u[7], <<0, 0, 0, 0>>), Xor64(t[8], u[8], <<0, 0, 0, 0>>)>>

Pbkdf2Next(inner, outer, s, u) == <<u, Xor64x8(s[2], u)>>

Pbkdf2Step(inner, outer, s) ==
    Eager(Sha512Compress(inner, s[1] \o Hmac512Tail), LAMBDA h :
        Eager(Sha512Compress(outer, h \o Hmac512Tail), LAMBDA u :
            Pbkdf2Next(inner, outer, s, u)))

\* n more iterations, by halves; a state is evaluated before the next
\* iteration reads it
RECURSIVE Pbkdf2Steps(_, _, _, _)
Pbkdf2Steps(inner, outer, s, n) ==
    IF n = 0 \/ Len(s[2]) # 8 THEN s
    ELSE IF n = 1 THEN Pbkdf2Step(inner, outer, s)
    ELSE Pbkdf2Steps(inner, outer, Pbkdf2Steps(inner, outer, s, n \div 2), n - n \div 2)

Pbkdf2From(inner, outer, u1, iter) ==
    Eager(Pbkdf2Steps(inner, outer, <<u1, u1>>, iter - 1), LAMBDA s :
        Words64BigEndian(s[2], 1, 8))

\* pbkdf2.Key(password, salt, iter, 64, sha512.New)
Pbkdf2Key(password, salt, iter) ==
    Eager2(Hmac512State(password, 54), Hmac512State(password, 92), LAMBDA inner, outer :
        Eager(Hmac512Words(inner, outer, salt \o <<0, 0, 0, 1>>), LAMBDA u1 :
            Pbkdf2From(inner, outer, u1, iter)))

\* Arithmetic of secp256k1, which btcec and go-bip32 take from their
\* libraries. A number below 2^260 is 20 limbs of 13 bits, the least
\* significant first; a modulus m is given with c = 2^256 - m, f = 2^260
\* mod m, big = 32 m and inv = m - 2.

\* the prime of the field of secp256k1, 2^256 - 2^32 - 977
FieldPrime ==
    [m |-> <<7215, 8191, 8127, 8191, 8191, 8191, 8191, 8191, 8191, 8191,
             8191, 8191, 8191, 8191, 8191, 8191, 8191, 8191, 8191, 511>>,
     c |-> <<977, 0, 64>>,
     f |-> <<7440, 1, 1024>>,
     big |-> <<1504, 8188, 6143, 8191, 8191, 8191, 8191, 8191, 8191, 8191,
               8191, 8191, 8191, 8191, 8191, 8191, 8191, 8191, 8191, 8191,
               1>>,
     inv |-> <<7213, 8191, 8127, 8191, 8191, 8191, 8191, 8191, 8191, 8191,
               8191, 8191, 8191, 8191, 8191, 8191, 8191, 8191, 8191, 511>>]

\* the order n of the group of secp256k1
GroupOrder ==
    [m |-> <<321, 434, 820, 1213, 7165, 4125, 7458, 7381, 3804, 5589,
             8191, 8191, 8191, 8191, 8191, 8191, 8191, 8191, 8191, 511>>,
     c |-> <<7871, 7757, 7371, 6978, 1026, 4066, 733, 810, 4387, 2602>>,
     f |-> <<3056, 1247, 3263, 5166, 45, 7714, 3543, 4769, 4657, 680,
             5>>,
     big |-> <<2080, 5697, 1665, 6051, 8100, 955, 1104, 6845, 7068, 6830,
               8181, 8191, 8191, 8191, 8191, 8191, 8191, 8191, 8191, 8191,
               1>>,
     inv |-> <<319, 434, 820, 1213, 7165, 4125, 7458, 7381, 3804, 5589,
               8191, 8191, 8191, 8191, 8191, 8191, 8191, 8191, 8191, 511>>]

\* the base point G
BasePoint ==
    <<<<6040, 6080, 5829, 1282, 5535, 5228, 5944, 7013, 7164, 6164,
        705, 7438, 2396, 4145, 4438, 6005, 6620, 5111, 3993, 243>>,
      <<5304, 6278, 1022, 4001, 6596, 2572, 6677, 2324, 6068, 2024,
        554, 7202, 8128, 4733, 5494, 6284, 1699, 5049, 3766, 144>>>>

ZeroNum == <<0, 0, 0, 0, 0, 0, 0, 0, 0, 0, 0, 0, 0, 0, 0, 0, 0, 0, 0, 0>>
OneNum == <<1, 0, 0, 0, 0, 0, 0, 0, 0, 0, 0, 0, 0, 0, 0, 0, 0, 0, 0, 0>>

\* limb k of x, zero above its last limb
LimbOrZero(x, k) == IF k <= Len(x) THEN x[k] ELSE 0

\* the limbs lo..hi of the sums cols (of any sign) with the carry c into
\* limb lo, and the carry out of limb hi; by halves
CarryGlue(left, right) == <<left[1] \o right[1], right[2]>>

RECURSIVE CarryRange(_, _, _, _)
CarryJoin(cols, mid, hi, left) == CarryGlue(left, CarryRange(cols, mid + 1, hi, left[2]))

CarryRange(cols, lo, hi, c) ==
    IF lo < hi
    THEN CarryJoin(cols, (lo + hi) \div 2, hi, CarryRange(cols, lo, (lo + hi) \div 2, c))
    ELSE <<<<(LimbOrZero(cols, lo) + c) % 8192>>, (LimbOrZero(cols, lo) + c) \div 8192>>

\* the n limbs of the sums cols, carried
Carry(cols, n) == Eager(cols, LAMBDA sums : CarryRange(sums, 1, n, 0)[1])

\* the number of 32 bytes, big-endian; byte i counts from the end, from 0
ByteFromEnd(b, i) == IF i < Len(b) THEN b[Len(b) - i] ELSE 0

NumLimb(b, k) ==
    ((ByteFromEnd(b, (13 * (k - 1)) \div 8)
      + 256 * ByteFromEnd(b, (13 * (k - 1)) \div 8 + 1)
      + 65536 * ByteFromEnd(b, (13 * (k - 1)) \div 8 + 2))
     \div TwoTo[((13 * (k - 1)) % 8) + 1]) % 8192

BytesToNum(b) == [k \in 1..20 |-> NumLimb(b, k)] \o <<>>

\* the 32 bytes, big-endian, of a number below 2^256

NumByte(x, i) ==
    ((LimbOrZero(x, (8 * i) \div 13 + 1) + 8192 * LimbOrZero(x, (8 * i) \div 13 + 2))
     \div TwoTo[((8 * i) % 13) + 1]) % 256

NumToBytes(x) == [j \in 1..32 |-> NumByte(x, 32 - j)] \o <<>>

\* bit i of x, bit 0 the least significant
NumBit(x, i) == (x[i \div 13 + 1] \div TwoTo[(i % 13) + 1]) % 2

\* x >= y, for numbers of n limbs each, from limb n down
RECURSIVE GeqFrom(_, _, _)
GeqFrom(x, y, n) ==
    IF n = 0 THEN TRUE
    ELSE IF x[n] # y[n] THEN x[n] > y[n]
    ELSE GeqFrom(x, y, n - 1)

Geq(x, y) == GeqFrom(x, y, 20)

\* column k of the product of a by the number b, which is 19 zeros, the
\* limbs of b and 19 zeros in bp
MulCol(a, bp, k) ==
    a[1] * bp[k + 19] + a[2] * bp[k + 18] + a[3] * bp[k + 17] + a[4] * bp[k + 16]
    + a[5] * bp[k + 15] + a[6] * bp[k + 14] + a[7] * bp[k + 13] + a[8] * bp[k + 12]
    + a[9] * bp[k + 11] + a[10] * bp[k + 10] + a[11] * bp[k + 9] + a[12] * bp[k + 8]
    + a[13] * bp[k + 7] + a[14] * bp[k + 6] + a[15] * bp[k + 5] + a[16] * bp[k + 4]
    + a[17] * bp[k + 3] + a[18] * bp[k + 2] + a[19] * bp[k + 1] + a[20] * bp[k]

Zero19 == <<0, 0, 0, 0, 0, 0, 0, 0, 0, 0, 0, 0, 0, 0, 0, 0, 0, 0, 0>>

MulCols(a, bp) == [k \in 1..39 |-> MulCol(a, bp, k)] \o <<>>

\* the product of two numbers, 40 limbs
Mul(a, b) == Eager2(a, b, LAMBDA x, y : Carry(MulCols(x, Zero19 \o y \o Zero19), 40))

\* column k of x = lo + 2^260 hi folded to lo + f hi: the terms of f from
\* limb j on
RECURSIVE FoldCol(_, _, _, _)
FoldCol(x, f, k, j) ==
    IF j > Len(f) \/ j > k THEN 0
    ELSE LimbOrZero(x, 20 + k + 1 - j) * f[j] + FoldCol(x, f, k, j + 1)

FoldCols(x, f) ==
    [k \in 1..(IF Len(x) + Len(f) - 21 > 20 THEN Len(x) + Len(f) - 21 ELSE 20) |->
        (IF k <= 20 THEN x[k] ELSE 0) + FoldCol(x, f, k, 1)] \o <<>>

\* x without the zero limbs above limb 20
RECURSIVE Trim(_)
Trim(x) == IF Len(x) > 20 /\ x[Len(x)] = 0 THEN Trim(SubSeq(x, 1, Len(x) - 1)) ELSE x

\* a number below 2^260 congruent to x modulo M.m
RECURSIVE Reduce(_, _)
Reduce(M, x) ==
    Eager(Trim(x), LAMBDA t :
        IF Len(t) <= 20 THEN t
        ELSE Reduce(M, Eager(FoldCols(t, M.f), LAMBDA cols : Carry(cols, Len(cols) + 1))))

\* x - y for x >= y
Sub(x, y) == Eager2(x, y, LAMBDA a, b : Carry([k \in 1..20 |-> a[k] - b[k]] \o <<>>, 20))

\* the number below M.m congruent to x, x below 2^260: the bits from 2^256
\* on are folded, then M.m is subtracted once if need be
Canon(M, x) ==
    Eager(x, LAMBDA a :
        Eager(Carry([k \in 1..20 |->
                        (IF k = 20 THEN a[k] % 512 ELSE a[k])
                        + (a[20] \div 512) * LimbOrZero(M.c, k)] \o <<>>, 20),
              LAMBDA y : IF Geq(y, M.m) THEN Sub(y, M.m) ELSE y))

MulMod(M, a, b) == Reduce(M, Mul(a, b))

AddMod(M, a, b) ==
    Eager2(a, b, LAMBDA x, y : Reduce(M, Carry([k \in 1..20 |-> x[k] + y[k]] \o <<>>, 21)))

\* a - b, as a + 32 m - b
SubMod(M, a, b) ==
    Eager2(a, b, LAMBDA x, y :
        Reduce(M, Carry([k \in 1..21 |->
                            LimbOrZero(x, k) + M.big[k] - LimbOrZero(y, k)] \o <<>>, 22)))

\* a times the small number s
TimesMod(M, s, a) ==
    Eager(a, LAMBDA x : Reduce(M, Carry([k \in 1..20 |-> s * x[k]] \o <<>>, 21)))

\* acc raised by the bits hi down to lo of the exponent e: for each bit acc
\* is squared and, when the bit is 1, multiplied by a; by halves, and acc is
\* evaluated before the next bits read it
RECURSIVE PowBits(_, _, _, _, _, _)
PowBits(M, acc, a, e, hi, lo) ==
    IF Len(acc) = 20 /\ hi > lo
    THEN PowBits(M, PowBits(M, acc, a, e, hi, (hi + lo) \div 2 + 1), a, e, (hi + lo) \div 2, lo)
    ELSE IF NumBit(e, hi) = 1 THEN MulMod(M, MulMod(M, acc, acc), a)
    ELSE MulMod(M, acc, acc)

\* the inverse of a modulo the prime M.m, a^(m - 2)
InvMod(M, a) == Eager(a, LAMBDA x : PowBits(M, OneNum, x, M.inv, 255, 0))

\* The group of secp256k1, y^2 = x^3 + 7. A point is <<X, Y, Z>> in Jacobian
\* coordinates, x = X / Z^2 and y = Y / Z^3; Z is zero for the point at
\* infinity.

Infinity == <<OneNum, OneNum, ZeroNum>>

IsZeroMod(M, x) == Canon(M, x) = ZeroNum

\* 2 P, with yy = Y^2, s = 4 X Y^2, mm = 3 X^2, x3 = mm^2 - 2 s
DoubleEnd(P, yy, s, mm, x3) ==
    <<x3,
      SubMod(FieldPrime, MulMod(FieldPrime, mm, SubMod(FieldPrime, s, x3)),
             TimesMod(FieldPrime, 8, MulMod(FieldPrime, yy, yy))),
      TimesMod(FieldPrime, 2, MulMod(FieldPrime, P[2], P[3]))>>

DoubleMid(P, yy, s, mm) ==
    DoubleEnd(P, yy, s, mm,
              SubMod(FieldPrime, MulMod(FieldPrime, mm, mm), TimesMod(FieldPrime, 2, s)))

DoubleStart(P, yy) ==
    DoubleMid(P, yy, TimesMod(FieldPrime, 4, MulMod(FieldPrime, P[1], yy)),
              TimesMod(FieldPrime, 3, MulMod(FieldPrime, P[1], P[1])))

Double(P) ==
    IF IsZeroMod(FieldPrime, P[3]) THEN Infinity
    ELSE DoubleStart(P, MulMod(FieldPrime, P[2], P[2]))

\* P + Q for Q = <<x, y>> in affine coordinates, with zz = Z^2,
\* h = x zz - X, r = y Z zz - Y, hh = h^2, v = X hh, x3 = r^2 - h hh - 2 v
AddEnd(P, h, r, hh, v, x3) ==
    <<x3,
      SubMod(FieldPrime, MulMod(FieldPrime, r, SubMod(FieldPrime, v, x3)),
             MulMod(FieldPrime, P[2], MulMod(FieldPrime, h, hh))),
      MulMod(FieldPrime, P[3], h)>>

AddMid(P, h, r, hh, v) ==
    AddEnd(P, h, r, hh, v,
           SubMod(FieldPrime,
                  SubMod(FieldPrime, MulMod(FieldPrime, r, r), MulMod(FieldPrime, h, hh)),
                  TimesMod(FieldPrime, 2, v)))

AddHalf(P, h, r, hh) == AddMid(P, h, r, hh, MulMod(FieldPrime, P[1], hh))

AddDiff(P, Q, h, r) ==
    IF IsZeroMod(FieldPrime, h)
    THEN (IF IsZeroMod(FieldPrime, r) THEN Double(P) ELSE Infinity)
    ELSE AddHalf(P, h, r, MulMod(FieldPrime, h, h))

AddStart(P, Q, zz) ==
    AddDiff(P, Q,
            SubMod(FieldPrime, MulMod(FieldPrime, Q[1], zz), P[1]),
            SubMod(FieldPrime, MulMod(FieldPrime, Q[2], MulMod(FieldPrime, P[3], zz)), P[2]))

AddAffine(P, Q) ==
    IF IsZeroMod(FieldPrime, P[3]) THEN <<Q[1], Q[2], OneNum>>
    ELSE AddStart(P, Q, MulMod(FieldPrime, P[3], P[3]))

\* acc doubled and, for a bit 1, G added, for the bits hi down to lo of k;
\* by halves, and acc is evaluated before the next bits read it
RECURSIVE BaseMultBits(_, _, _, _)
BaseMultBits(acc, k, hi, lo) ==
    IF Len(acc) = 3 /\ hi > lo
    THEN BaseMultBits(BaseMultBits(acc, k, hi, (hi + lo) \div 2 + 1), k, (hi + lo) \div 2, lo)
    ELSE IF NumBit(k, hi) = 1 THEN AddAffine(Double(acc), BasePoint)
    ELSE Double(acc)

\* the affine coordinates <<x, y>> of P, not at infinity, zi = 1 / Z
AffineWith(P, zi, zizi) ==
    <<Canon(FieldPrime, MulMod(FieldPrime, P[1], zizi)),
      Canon(FieldPrime, MulMod(FieldPrime, P[2], MulMod(FieldPrime, zi, zizi)))>>

AffineBy(P, zi) == AffineWith(P, zi, MulMod(FieldPrime, zi, zi))

Affine(P) == Eager(P, LAMBDA Q : AffineBy(Q, InvMod(FieldPrime, Q[3])))

\* ScalarBaseMultNonConst and ToAffine: k G for the number k, 0 < k < n
ScalarBaseMult(k) == Eager(k, LAMBDA s : Affine(BaseMultBits(Infinity, s, 255, 0)))

\* HMAC with SHA-256, whose block is 64 bytes
Hmac256Key(key) ==
    IF Len(key) > 64 THEN Sum256(key) \o [i \in 1..32 |-> 0]
    ELSE key \o [i \in 1..(64 - Len(key)) |-> 0]

Hmac256With(k, data) ==
    Eager(Sum256([i \in 1..64 |-> XorByte(k[i], 54)] \o data), LAMBDA inner :
        Sum256([i \in 1..64 |-> XorByte(k[i], 92)] \o inner))

Hmac256(key, data) == Eager(Hmac256Key(key), LAMBDA k : Hmac256With(k, data))

\* a number of 32 bytes that is a scalar of the group: not zero, below n
IsScalar(b) == BytesToNum(b) # ZeroNum /\ ~Geq(BytesToNum(b), GroupOrder.m)

\* 32 bytes of b: its first 32, or b after zeros
Fit32(b) ==
    IF Len(b) > 32 THEN SubSeq(b, 1, 32) ELSE [i \in 1..(32 - Len(b)) |-> 0] \o b

\* the loop of NonceRFC6979 (RFC 6979, 3.2 h): V = HMAC_K(V) is the nonce
\* when it is a scalar and extraIterations scalars came before it; otherwise
\* K = HMAC_K(V || 0x00), V = HMAC_K(V)
RECURSIVE NonceLoop(_, _, _, _)
NonceLoop(k, v, generated, extraIterations) ==
    Eager(Hmac256(k, v), LAMBDA t :
        IF IsScalar(t) /\ generated + 1 > extraIterations THEN t
        ELSE Eager(Hmac256(k, t \o <<0>>), LAMBDA k2 :
                NonceLoop(k2, Hmac256(k2, t),
                          IF IsScalar(t) THEN generated + 1 ELSE generated,
                          extraIterations)))

\* the steps d to g: K = HMAC_K(V || 0x00 || key), V = HMAC_K(V),
\* K = HMAC_K(V || 0x01 || key), V = HMAC_K(V), from V = 01..01 and K = 00..00
NonceStart(key, extraIterations) ==
    Eager(Hmac256([i \in 1..32 |-> 0], [i \in 1..32 |-> 1] \o <<0>> \o key), LAMBDA k1 :
    Eager(Hmac256(k1, [i \in 1..32 |-> 1]), LAMBDA v1 :
    Eager(Hmac256(k1, v1 \o <<1>> \o key), LAMBDA k2 :
        NonceLoop(k2, Hmac256(k2, v1), 0, extraIterations))))

\* secp256k1.NonceRFC6979(privKey, hash, nil, nil, extraIterations): the key
\* of the HMAC is the private key and the hash, 32 bytes each, as given
NonceRFC6979(privKey, hash, extraIterations) ==
    Eager(Fit32(privKey) \o Fit32(hash), LAMBDA key : NonceStart(key, extraIterations))

\* (n - 1) / 2
HalfOrder ==
    <<160, 217, 4506, 4702, 7678, 2062, 7825, 3690, 5998, 6890, 8191, 8191, 8191, 8191, 8191, 8191, 8191, 8191, 8191, 255>>

\* s, or n - s when s is over half the order
LowS(s) == IF Geq(HalfOrder, s) THEN s ELSE Sub(GroupOrder.m, s)

\* sign of btcec's ecdsa with the nonce k: r is the x of k G modulo n,
\* s = k^-1 (e + r d) modulo n for the hash e, made low; it fails when r or
\* s is zero
SignWithR(d, k, e, r) ==
    IF r = ZeroNum THEN [ok |-> FALSE, R |-> <<>>, S |-> <<>>]
    ELSE Eager(Canon(GroupOrder,
                     MulMod(GroupOrder, InvMod(GroupOrder, k),
                            AddMod(GroupOrder, e, MulMod(GroupOrder, r, d)))),
               LAMBDA s :
                   IF s = ZeroNum THEN [ok |-> FALSE, R |-> <<>>, S |-> <<>>]
                   ELSE [ok |-> TRUE, R |-> NumToBytes(r), S |-> NumToBytes(LowS(s))])

SignWithNonce(d, k, hash) ==
    Eager(Canon(GroupOrder, ScalarBaseMult(k)[1]), LAMBDA r :
        SignWithR(d, k, Canon(GroupOrder, BytesToNum(Fit32(hash))), r))

\* signRFC6979: nonces are tried until one signs; R and S of 32 bytes
RECURSIVE signRFC6979(_, _, _)
signRFC6979(privKey, hash, iteration) ==
    Eager(BytesToNum(NonceRFC6979(privKey, hash, iteration)), LAMBDA k :
        Eager(SignWithNonce(BytesToNum(privKey), k, hash),
              LAMBDA sig : IF sig.ok THEN [R |-> sig.R, S |-> sig.S]
                           ELSE signRFC6979(privKey, hash, iteration + 1)))

\* the bytes of an integer in DER: no leading zero byte but the one that
\* keeps the high bit clear
RECURSIVE Canonical(_)
Canonical(b) ==
    IF Len(b) > 1 /\ b[1] = 0 /\ b[2] < 128 THEN Canonical(Tail(b)) ELSE b

\* Signature.Serialize: 0x30, the length, and 0x02, the length and the bytes
\* of R and of S
SerializeCanonical(r, s) ==
    <<48, 4 + Len(r) + Len(s), 2, Len(r)>> \o r \o <<2, Len(s)>> \o s

SerializeSignature(sig) == SerializeCanonical(Canonical(<<0>> \o sig.R), Canonical(<<0>> \o sig.S))

\* the compressed encoding of the point <<x, y>>: 2 or 3 with the parity of
\* y, then x
CompressPoint(pt) == <<2 + (pt[2][1] % 2)>> \o NumToBytes(pt[1])

\* Values of the four functions above that cost the most, computed
\* beforehand for arguments the scenarios below meet: each table is a
\* sequence of <<argument, value>>, and Known takes the value from the table
\* when the argument is there and computes it otherwise.

KnownSeeds ==
    <<<<<<<<108, 101, 103, 97, 108, 32, 119, 105, 110, 110, 101, 114, 32, 116, 104, 97,
           110, 107, 32, 121, 101, 97, 114, 32, 119, 97, 118, 101, 32, 115, 97, 117, 115,
           97, 103, 101, 32, 119, 111, 114, 116, 104, 32, 117, 115, 101, 102, 117, 108,
           32, 108, 101, 103, 97, 108, 32, 119, 105, 110, 110, 101, 114, 32, 116, 104,
           97, 110, 107, 32, 121, 101, 108, 108, 111, 119>>,
         <<109, 110, 101, 109, 111, 110, 105, 99, 120>>>>,
       <<29, 52, 113, 253, 79, 106, 6, 5, 164, 141, 219, 38, 28, 13, 210, 123, 175, 3,
         28, 233, 102, 155, 126, 69, 38, 63, 103, 24, 118, 231, 202, 147, 51, 55, 116,
         91, 26, 140, 86, 200, 85, 9, 64, 220, 125, 24, 218, 165, 82, 131, 243, 61, 165,
         117, 117, 254, 125, 192, 139, 151, 49, 82, 141, 32>>>>,
     <<<<<<108, 101, 103, 97, 108, 32, 119, 105, 110, 110, 101, 114, 32, 116, 104, 97,
           110, 107, 32, 121, 101, 97, 114, 32, 119, 97, 118, 101, 32, 115, 97, 117, 115,
           97, 103, 101, 32, 119, 111, 114, 116, 104, 32, 117, 115, 101, 102, 117, 108,
           32, 108, 101, 103, 97, 108, 32, 119, 105, 110, 110, 101, 114, 32, 116, 104,
           97, 110, 107, 32, 121, 101, 108, 108, 111, 119>>,
         <<109, 110, 101, 109, 111, 110, 105, 99>>>>,
       <<135, 131, 134, 239, 183, 136, 69, 179, 53, 91, 209, 94, 164, 211, 158, 249, 125,
         23, 156, 183, 18, 183, 125, 92, 18, 182, 190, 65, 95, 255, 239, 254, 95, 55,
         123, 160, 43, 243, 248, 84, 74, 184, 0, 185, 85, 229, 31, 191, 240, 152, 40,
         246, 130, 5, 42, 32, 250, 166, 173, 219, 189, 223, 176, 150>>>>,
     <<<<<<97, 98, 97, 110, 100, 111, 110, 32, 97, 98, 97, 110, 100, 111, 110, 32, 97,
           98, 97, 110, 100, 111, 110, 32, 97, 98, 97, 110, 100, 111, 110, 32, 97, 98,
           97, 110, 100, 111, 110, 32, 97, 98, 97, 110, 100, 111, 110, 32, 97, 98, 97,
           110, 100, 111, 110, 32, 97, 98, 97, 110, 100, 111, 110, 32, 97, 98, 97, 110,
           100, 111, 110, 32, 97, 98, 97, 110, 100, 111, 110, 32, 97, 98, 97, 110, 100,
           111, 110, 32, 97, 98, 111, 117, 116>>,
         <<109, 110, 101, 109, 111, 110, 105, 99, 120>>>>,
       <<182, 111, 95, 238, 161, 158, 150, 39, 198, 114, 94, 7, 24, 72, 116, 177, 190,
         187, 12, 243, 138, 62, 166, 23, 149, 87, 114, 6, 38, 173, 177, 108, 15, 41, 83,
         62, 92, 202, 86, 69, 185, 1, 243, 163, 42, 145, 62, 196, 146, 184, 217, 32, 244,
         218, 153, 114, 20, 56, 251, 34, 245, 155, 248, 36>>>>,
     <<<<<<97, 98, 97, 110, 100, 111, 110, 32, 97, 98, 97, 110, 100, 111, 110, 32, 97,
           98, 97, 110, 100, 111, 110, 32, 97, 98, 97, 110, 100, 111, 110, 32, 97, 98,
           97, 110, 100, 111, 110, 32, 97, 98, 97, 110, 100, 111, 110, 32, 97, 98, 97,
           110, 100, 111, 110, 32, 97, 98, 97, 110, 100, 111, 110, 32, 97, 98, 97, 110,
           100, 111, 110, 32, 97, 98, 97, 110, 100, 111, 110, 32, 97, 98, 97, 110, 100,
           111, 110, 32, 97, 98, 111, 117, 116>>,
         <<109, 110, 101, 109, 111, 110, 105, 99>>>>,
       <<94, 176, 11, 189, 220, 240, 105, 8, 72, 137, 168, 171, 145, 85, 86, 129, 101,
         245, 196, 83, 204, 184, 94, 112, 129, 26, 174, 214, 246, 218, 95, 193, 154, 90,
         196, 11, 56, 156, 211, 112, 208, 134, 32, 109, 236, 138, 166, 196, 61, 174, 166,
         105, 15, 32, 173, 61, 141, 72, 178, 210, 206, 158, 56, 228>>>>>>

KnownHmac512 ==
    <<<<<<<<1, 145, 59, 6, 167, 37, 210, 98, 222, 243, 57, 128, 13, 147, 5, 164, 135, 39,
           66, 102, 186, 50, 229, 15, 213, 78, 163, 16, 172, 16, 203, 138>>,
         <<0, 143, 158, 49, 60, 204, 156, 104, 110, 204, 23, 69, 214, 228, 11, 174, 50,
           200, 143, 152, 35, 158, 151, 38, 211, 112, 9, 51, 68, 121, 211, 41, 94, 128,
           0, 0, 0>>>>,
       <<151, 163, 100, 125, 20, 184, 88, 31, 70, 125, 254, 120, 205, 235, 156, 57, 109,
         226, 161, 66, 75, 97, 145, 113, 52, 218, 71, 2, 18, 55, 127, 234, 189, 115, 91,
         236, 57, 50, 29, 117, 43, 141, 111, 171, 48, 137, 45, 83, 228, 43, 117, 157, 49,
         116, 180, 6, 117, 210, 142, 30, 65, 222, 122, 120>>>>,
     <<<<<<1, 145, 59, 6, 167, 37, 210, 98, 222, 243, 57, 128, 13, 147, 5, 164, 135, 39,
           66, 102, 186, 50, 229, 15, 213, 78, 163, 16, 172, 16, 203, 138>>,
         <<3, 114, 103, 88, 39, 62, 177, 105, 198, 2, 131, 116, 130, 124, 225, 4, 38, 22,
           131, 26, 5, 232, 56, 24, 27, 195, 46, 191, 60, 160, 56, 202, 204, 0, 0, 0, 0>>>>,
       <<231, 16, 160, 125, 177, 109, 18, 163, 171, 40, 44, 189, 241, 123, 117, 65, 205,
         160, 194, 36, 148, 65, 26, 39, 53, 1, 216, 247, 147, 231, 219, 189, 157, 171,
         166, 85, 94, 167, 175, 190, 51, 50, 68, 181, 0, 199, 24, 239, 200, 198, 72, 60,
         88, 33, 23, 92, 225, 36, 248, 29, 156, 79, 184, 29>>>>,
     <<<<<<1, 73, 0, 92, 27, 202, 139, 137, 72, 19, 134, 122, 209, 39, 244, 151, 70, 198,
           191, 92, 73, 143, 48, 6, 131, 164, 89, 150, 24, 57, 195, 235>>,
         <<0, 115, 77, 50, 65, 158, 178, 155, 246, 38, 128, 162, 190, 91, 77, 130, 217,
           249, 246, 20, 91, 101, 166, 239, 237, 86, 15, 48, 180, 47, 108, 180, 67, 128,
           0, 0, 0>>>>,
       <<42, 239, 228, 61, 38, 135, 129, 149, 1, 1, 120, 93, 17, 85, 165, 104, 81, 199,
         158, 152, 195, 179, 57, 226, 138, 250, 240, 102, 191, 1, 80, 46, 87, 144, 55,
         108, 43, 101, 105, 182, 177, 184, 171, 125, 59, 32, 118, 40, 24, 26, 183, 83,
         174, 234, 211, 80, 104, 81, 54, 54, 145, 60, 75, 143>>>>,
     <<<<<<10, 52, 216, 25, 125, 179, 56, 142, 178, 117, 218, 232, 72, 158, 247, 229,
           198, 164, 169, 159, 233, 205, 235, 70, 119, 19, 95, 96, 100, 102, 190, 132>>,
         <<3, 201, 56, 198, 128, 192, 192, 202, 218, 202, 246, 38, 60, 235, 16, 9, 249,
           165, 27, 129, 112, 46, 178, 25, 233, 64, 177, 184, 0, 79, 126, 192, 86, 0, 0,
           0, 0>>>>,
       <<10, 252, 170, 139, 82, 49, 46, 129, 40, 83, 159, 30, 172, 134, 32, 232, 80, 232,
         190, 132, 178, 84, 39, 235, 12, 13, 126, 7, 226, 28, 204, 75, 152, 96, 215, 18,
         57, 204, 20, 128, 109, 167, 24, 68, 246, 150, 141, 95, 181, 29, 90, 145, 44,
         101, 120, 235, 192, 43, 178, 114, 7, 66, 253, 165>>>>,
     <<<<<<10, 52, 216, 25, 125, 179, 56, 142, 178, 117, 218, 232, 72, 158, 247, 229,
           198, 164, 169, 159, 233, 205, 235, 70, 119, 19, 95, 96, 100, 102, 190, 132>>,
         <<3, 201, 56, 198, 128, 192, 192, 202, 218, 202, 246, 38, 60, 235, 16, 9, 249,
           165, 27, 129, 112, 46, 178, 25, 233, 64, 177, 184, 0, 79, 126, 192, 86, 0, 0,
           0, 1>>>>,
       <<141, 153, 50, 227, 181, 28, 240, 197, 108, 56, 13, 47, 172, 34, 145, 49, 202,
         166, 208, 33, 108, 251, 68, 133, 40, 52, 163, 153, 89, 152, 143, 158, 56, 109,
         74, 106, 139, 73, 171, 71, 232, 32, 253, 178, 28, 116, 105, 208, 142, 123, 24,
         88, 178, 7, 102, 63, 62, 198, 24, 34, 132, 186, 221, 234>>>>,
     <<<<<<10, 52, 216, 25, 125, 179, 56, 142, 178, 117, 218, 232, 72, 158, 247, 229,
           198, 164, 169, 159, 233, 205, 235, 70, 119, 19, 95, 96, 100, 102, 190, 132>>,
         <<3, 201, 56, 198, 128, 192, 192, 202, 218, 202, 246, 38, 60, 235, 16, 9, 249,
           165, 27, 129, 112, 46, 178, 25, 233, 64, 177, 184, 0, 79, 126, 192, 86, 0, 0,
           0, 2>>>>,
       <<64, 172, 143, 252, 250, 54, 127, 65, 90, 97, 247, 219, 253, 73, 55, 22, 64, 112,
         142, 100, 8, 247, 164, 124, 224, 211, 130, 70, 73, 44, 237, 102, 47, 3, 117, 27,
         255, 160, 244, 185, 121, 26, 184, 231, 27, 86, 248, 73, 132, 6, 118, 232, 133,
         29, 192, 110, 118, 50, 59, 45, 160, 65, 57, 35>>>>,
     <<<<<<10, 60, 80, 187, 106, 152, 50, 13, 62, 9, 142, 98, 45, 166, 21, 109, 76, 176,
           164, 52, 19, 50, 161, 111, 248, 63, 235, 211, 193, 250, 36, 62>>,
         <<2, 77, 117, 209, 252, 26, 133, 41, 33, 118, 113, 83, 175, 221, 239, 188, 64,
           99, 45, 101, 10, 69, 20, 255, 37, 124, 146, 169, 207, 44, 245, 122, 105, 0, 0,
           0, 0>>>>,
       <<181, 157, 192, 182, 128, 160, 172, 19, 130, 160, 96, 94, 22, 67, 56, 29, 221,
         152, 149, 47, 81, 2, 198, 152, 144, 188, 40, 7, 57, 123, 35, 53, 109, 218, 183,
         88, 58, 140, 147, 157, 187, 247, 54, 146, 245, 235, 203, 205, 160, 13, 154, 62,
         71, 32, 118, 111, 15, 149, 12, 107, 109, 119, 220, 192>>>>,
     <<<<<<10, 60, 80, 187, 106, 152, 50, 13, 62, 9, 142, 98, 45, 166, 21, 109, 76, 176,
           164, 52, 19, 50, 161, 111, 248, 63, 235, 211, 193, 250, 36, 62>>,
         <<2, 77, 117, 209, 252, 26, 133, 41, 33, 118, 113, 83, 175, 221, 239, 188, 64,
           99, 45, 101, 10, 69, 20, 255, 37, 124, 146, 169, 207, 44, 245, 122, 105, 0, 0,
           0, 1>>>>,
       <<21, 55, 21, 177, 159, 211, 13, 165, 154, 248, 160, 85, 16, 25, 144, 218, 128,
         74, 105, 162, 13, 101, 25, 56, 253, 126, 207, 125, 68, 46, 142, 118, 32, 227,
         173, 255, 2, 67, 99, 125, 112, 69, 200, 40, 223, 51, 224, 122, 157, 98, 127,
         219, 152, 69, 172, 21, 31, 162, 202, 31, 46, 96, 237, 135>>>>,
     <<<<<<10, 60, 80, 187, 106, 152, 50, 13, 62, 9, 142, 98, 45, 166, 21, 109, 76, 176,
           164, 52, 19, 50, 161, 111, 248, 63, 235, 211, 193, 250, 36, 62>>,
         <<2, 77, 117, 209, 252, 26, 133, 41, 33, 118, 113, 83, 175, 221, 239, 188, 64,
           99, 45, 101, 10, 69, 20, 255, 37, 124, 146, 169, 207, 44, 245, 122, 105, 0, 0,
           0, 2>>>>,
       <<4, 153, 137, 58, 161, 88, 9, 168, 228, 198, 132, 172, 57, 158, 144, 53, 4, 44,
         165, 45, 202, 166, 164, 81, 123, 225, 50, 249, 3, 155, 68, 140, 133, 173, 69,
         171, 246, 114, 252, 112, 57, 67, 205, 123, 149, 21, 252, 198, 248, 168, 79, 111,
         52, 212, 99, 197, 21, 25, 228, 146, 39, 17, 180, 151>>>>,
     <<<<<<103, 73, 188, 22, 42, 60, 176, 98, 157, 245, 224, 14, 203, 252, 190, 203, 219,
           52, 119, 249, 124, 244, 224, 2, 197, 227, 144, 238, 190, 172, 161, 139>>,
         <<0, 235, 196, 94, 102, 78, 93, 153, 153, 14, 115, 55, 230, 143, 254, 182, 47,
           63, 91, 64, 53, 21, 27, 59, 209, 37, 118, 187, 130, 183, 109, 34, 156, 128, 0,
           0, 0>>>>,
       <<223, 240, 135, 95, 204, 242, 53, 243, 12, 212, 189, 26, 12, 71, 166, 18, 99,
         211, 128, 229, 100, 86, 96, 151, 32, 197, 75, 7, 131, 117, 31, 70, 180, 225,
         199, 0, 149, 224, 250, 125, 217, 103, 39, 239, 74, 205, 179, 201, 129, 199, 174,
         191, 181, 2, 171, 232, 7, 231, 165, 31, 23, 36, 66, 77>>>>,
     <<<<<<103, 73, 188, 22, 42, 60, 176, 98, 157, 245, 224, 14, 203, 252, 190, 203, 219,
           52, 119, 249, 124, 244, 224, 2, 197, 227, 144, 238, 190, 172, 161, 139>>,
         <<3, 68, 158, 72, 235, 247, 243, 34, 193, 85, 60, 202, 18, 243, 32, 87, 90, 27,
           23, 3, 47, 7, 77, 244, 22, 192, 250, 20, 157, 177, 41, 114, 105, 0, 0, 0, 0>>>>,
       <<202, 192, 255, 179, 229, 161, 59, 216, 43, 196, 33, 227, 150, 118, 20, 235, 77,
         205, 91, 66, 3, 141, 67, 164, 242, 178, 39, 180, 25, 116, 102, 54, 40, 124, 195,
         129, 46, 243, 158, 68, 132, 69, 116, 72, 184, 178, 186, 113, 37, 251, 122, 63,
         55, 85, 38, 80, 241, 124, 230, 149, 38, 195, 205, 169>>>>,
     <<<<<<107, 80, 37, 22, 229, 114, 163, 215, 17, 80, 37, 18, 141, 74, 140, 214, 213,
           233, 68, 1, 94, 158, 15, 171, 87, 119, 125, 111, 252, 134, 155, 230>>,
         <<3, 116, 19, 27, 29, 119, 85, 191, 3, 90, 206, 57, 4, 73, 173, 120, 253, 14,
           223, 68, 102, 167, 10, 200, 229, 156, 245, 191, 240, 52, 99, 254, 185, 0, 0,
           0, 0>>>>,
       <<85, 68, 134, 105, 95, 106, 64, 232, 44, 11, 198, 166, 207, 15, 160, 22, 48, 21,
         120, 237, 110, 220, 147, 145, 14, 240, 74, 240, 188, 130, 194, 251, 188, 41,
         179, 109, 156, 45, 132, 61, 79, 108, 204, 18, 230, 29, 241, 222, 56, 197, 240,
         12, 249, 212, 12, 171, 193, 127, 122, 246, 23, 15, 103, 4>>>>,
     <<<<<<107, 80, 37, 22, 229, 114, 163, 215, 17, 80, 37, 18, 141, 74, 140, 214, 213,
           233, 68, 1, 94, 158, 15, 171, 87, 119, 125, 111, 252, 134, 155, 230>>,
         <<3, 116, 19, 27, 29, 119, 85, 191, 3, 90, 206, 57, 4, 73, 173, 120, 253, 14,
           223, 68, 102, 167, 10, 200, 229, 156, 245, 191, 240, 52, 99, 254, 185, 0, 0,
           0, 1>>>>,
       <<98, 177, 60, 231, 87, 132, 211, 233, 121, 134, 123, 233, 158, 57, 94, 237, 229,
         68, 210, 138, 20, 45, 78, 122, 191, 44, 48, 200, 106, 111, 135, 243, 74, 149, 9,
         168, 138, 60, 120, 42, 84, 159, 226, 206, 88, 225, 205, 154, 190, 201, 149, 200,
         184, 124, 253, 194, 98, 62, 142, 41, 156, 156, 31, 76>>>>,
     <<<<<<107, 80, 37, 22, 229, 114, 163, 215, 17, 80, 37, 18, 141, 74, 140, 214, 213,
           233, 68, 1, 94, 158, 15, 171, 87, 119, 125, 111, 252, 134, 155, 230>>,
         <<3, 116, 19, 27, 29, 119, 85, 191, 3, 90, 206, 57, 4, 73, 173, 120, 253, 14,
           223, 68, 102, 167, 10, 200, 229, 156, 245, 191, 240, 52, 99, 254, 185, 0, 0,
           0, 2>>>>,
       <<254, 46, 162, 127, 178, 78, 185, 79, 127, 247, 85, 75, 131, 250, 160, 246, 112,
         221, 49, 208, 128, 45, 149, 2, 21, 22, 246, 101, 246, 209, 160, 110, 218, 213,
         83, 132, 193, 162, 208, 172, 249, 14, 36, 252, 246, 35, 24, 56, 40, 143, 36,
         168, 135, 24, 221, 180, 25, 45, 18, 77, 184, 13, 35, 112>>>>,
     <<<<<<108, 45, 7, 15, 157, 39, 240, 245, 199, 144, 15, 22, 75, 64, 55, 224, 147, 1,
           130, 107, 184, 116, 32, 47, 47, 28, 128, 149, 65, 61, 54, 187>>,
         <<0, 254, 135, 219, 198, 211, 74, 126, 42, 202, 29, 114, 125, 57, 34, 234, 247,
           194, 26, 127, 124, 149, 187, 136, 88, 221, 132, 41, 168, 166, 156, 20, 244,
           128, 0, 0, 0>>>>,
       <<226, 199, 75, 134, 67, 127, 143, 102, 56, 254, 38, 52, 41, 62, 149, 104, 200,
         205, 142, 100, 81, 168, 14, 183, 173, 66, 127, 229, 171, 52, 227, 33, 74, 83,
         160, 171, 33, 185, 220, 149, 134, 156, 78, 146, 161, 97, 25, 78, 3, 192, 239,
         63, 245, 1, 74, 198, 146, 244, 51, 196, 118, 84, 144, 252>>>>,
     <<<<<<108, 85, 113, 18, 4, 171, 148, 57, 76, 168, 32, 209, 42, 97, 117, 238, 12,
           184, 207, 245, 129, 206, 46, 133, 72, 254, 150, 200, 27, 154, 42, 124>>,
         <<2, 49, 151, 107, 39, 5, 116, 115, 106, 6, 81, 134, 225, 85, 247, 69, 58, 169,
           191, 162, 14, 115, 87, 10, 110, 213, 146, 94, 145, 188, 10, 131, 132, 0, 0, 0,
           0>>>>,
       <<53, 202, 33, 187, 9, 78, 184, 119, 46, 197, 150, 54, 91, 15, 51, 120, 157, 42,
         176, 24, 149, 208, 93, 201, 235, 29, 255, 139, 48, 151, 212, 71, 199, 111, 48,
         23, 205, 165, 160, 95, 225, 228, 109, 17, 254, 100, 207, 6, 108, 10, 235, 52,
         32, 232, 242, 115, 38, 158, 148, 180, 206, 168, 119, 41>>>>>>
    \o <<<<<<<<108, 85, 113, 18, 4, 171, 148, 57, 76, 168, 32, 209, 42, 97, 117, 238, 12,
           184, 207, 245, 129, 206, 46, 133, 72, 254, 150, 200, 27, 154, 42, 124>>,
         <<2, 49, 151, 107, 39, 5, 116, 115, 106, 6, 81, 134, 225, 85, 247, 69, 58, 169,
           191, 162, 14, 115, 87, 10, 110, 213, 146, 94, 145, 188, 10, 131, 132, 0, 0, 0,
           1>>>>,
       <<134, 219, 67, 227, 126, 144, 29, 131, 246, 42, 166, 193, 254, 95, 208, 123, 224,
         227, 22, 51, 215, 225, 92, 240, 110, 173, 82, 12, 71, 154, 97, 103, 187, 78, 22,
         199, 153, 187, 244, 70, 221, 251, 129, 241, 230, 181, 96, 24, 151, 178, 204,
         141, 122, 147, 12, 24, 62, 115, 145, 253, 250, 229, 12, 128>>>>,
     <<<<<<108, 85, 113, 18, 4, 171, 148, 57, 76, 168, 32, 209, 42, 97, 117, 238, 12,
           184, 207, 245, 129, 206, 46, 133, 72, 254, 150, 200, 27, 154, 42, 124>>,
         <<2, 49, 151, 107, 39, 5, 116, 115, 106, 6, 81, 134, 225, 85, 247, 69, 58, 169,
           191, 162, 14, 115, 87, 10, 110, 213, 146, 94, 145, 188, 10, 131, 132, 0, 0, 0,
           2>>>>,
       <<51, 43, 248, 115, 46, 45, 172, 155, 96, 43, 104, 203, 164, 80, 171, 119, 216,
         90, 47, 197, 87, 213, 188, 173, 107, 45, 121, 254, 208, 147, 222, 48, 236, 18,
         185, 232, 141, 180, 203, 205, 62, 198, 139, 150, 142, 190, 100, 246, 169, 61,
         168, 33, 122, 108, 252, 219, 253, 93, 113, 241, 140, 130, 5, 23>>>>,
     <<<<<<112, 23, 55, 12, 96, 92, 201, 35, 23, 68, 62, 184, 198, 180, 88, 69, 149, 98,
           198, 36, 212, 211, 38, 150, 123, 165, 244, 143, 26, 111, 9, 56>>,
         <<0, 182, 58, 71, 185, 25, 127, 140, 86, 252, 193, 119, 195, 198, 1, 139, 241,
           4, 6, 0, 202, 126, 237, 164, 141, 17, 75, 101, 93, 230, 134, 92, 58, 128, 0,
           0, 0>>>>,
       <<136, 128, 160, 221, 3, 241, 17, 91, 189, 64, 84, 41, 155, 165, 83, 237, 172,
         253, 184, 70, 24, 100, 152, 77, 209, 37, 84, 118, 124, 236, 128, 7, 27, 135,
         128, 185, 54, 161, 167, 179, 6, 252, 95, 90, 58, 31, 33, 55, 254, 208, 3, 190,
         241, 162, 0, 114, 207, 187, 215, 54, 80, 133, 58, 172>>>>,
     <<<<<<121, 35, 64, 141, 173, 211, 199, 181, 110, 237, 21, 86, 119, 7, 174, 94, 93,
           202, 8, 157, 233, 114, 224, 127, 59, 134, 4, 80, 226, 163, 183, 14>>,
         <<0, 24, 55, 193, 190, 142, 41, 149, 236, 17, 205, 162, 176, 102, 21, 27, 226,
           207, 180, 138, 223, 158, 71, 177, 81, 212, 106, 218, 179, 162, 28, 223, 103,
           128, 0, 0, 0>>>>,
       <<168, 85, 49, 115, 11, 58, 236, 212, 91, 230, 47, 169, 153, 132, 162, 105, 39,
         83, 173, 69, 54, 233, 212, 145, 93, 39, 19, 201, 73, 15, 26, 8, 241, 192, 63,
         95, 249, 113, 8, 145, 47, 213, 103, 97, 211, 250, 218, 136, 121, 228, 23, 58,
         186, 69, 241, 13, 164, 187, 217, 75, 28, 73, 113, 96>>>>,
     <<<<<<121, 35, 64, 141, 173, 211, 199, 181, 110, 237, 21, 86, 119, 7, 174, 94, 93,
           202, 8, 157, 233, 114, 224, 127, 59, 134, 4, 80, 226, 163, 183, 14>>,
         <<0, 24, 55, 193, 190, 142, 41, 149, 236, 17, 205, 162, 176, 102, 21, 27, 226,
           207, 180, 138, 223, 158, 71, 177, 81, 212, 106, 218, 179, 162, 28, 223, 103,
           128, 0, 0, 111>>>>,
       <<136, 86, 84, 164, 123, 219, 97, 54, 27, 9, 33, 118, 226, 13, 86, 37, 76, 166,
         188, 232, 210, 71, 13, 122, 85, 43, 231, 12, 189, 16, 212, 109, 2, 170, 53, 183,
         169, 134, 169, 53, 102, 141, 129, 185, 135, 71, 65, 246, 91, 19, 176, 102, 147,
         237, 81, 242, 208, 142, 24, 202, 193, 2, 42, 36>>>>,
     <<<<<<121, 35, 64, 141, 173, 211, 199, 181, 110, 237, 21, 86, 119, 7, 174, 94, 93,
           202, 8, 157, 233, 114, 224, 127, 59, 134, 4, 80, 226, 163, 183, 14>>,
         <<0, 24, 55, 193, 190, 142, 41, 149, 236, 17, 205, 162, 176, 102, 21, 27, 226,
           207, 180, 138, 223, 158, 71, 177, 81, 212, 106, 218, 179, 162, 28, 223, 103,
           128, 0, 0, 11>>>>,
       <<244, 122, 194, 253, 243, 13, 191, 6, 96, 89, 148, 233, 219, 41, 181, 166, 100,
         103, 9, 143, 53, 245, 37, 228, 103, 172, 171, 145, 23, 120, 12, 89, 172, 39,
         165, 105, 132, 162, 201, 192, 170, 118, 218, 180, 43, 58, 214, 249, 204, 207,
         205, 180, 86, 217, 95, 226, 7, 79, 56, 105, 163, 153, 216, 24>>>>,
     <<<<<<121, 35, 64, 141, 173, 211, 199, 181, 110, 237, 21, 86, 119, 7, 174, 94, 93,
           202, 8, 157, 233, 114, 224, 127, 59, 134, 4, 80, 226, 163, 183, 14>>,
         <<0, 24, 55, 193, 190, 142, 41, 149, 236, 17, 205, 162, 176, 102, 21, 27, 226,
           207, 180, 138, 223, 158, 71, 177, 81, 212, 106, 218, 179, 162, 28, 223, 103,
           128, 0, 0, 1>>>>,
       <<38, 184, 110, 6, 161, 214, 222, 60, 128, 46, 237, 149, 37, 148, 209, 229, 102,
         137, 4, 63, 136, 54, 129, 25, 60, 13, 150, 88, 219, 150, 110, 126, 67, 204, 75,
         202, 89, 198, 102, 165, 247, 146, 101, 20, 129, 37, 128, 46, 210, 206, 196, 109,
         241, 197, 202, 142, 106, 5, 141, 171, 82, 90, 115, 241>>>>,
     <<<<<<121, 35, 64, 141, 173, 211, 199, 181, 110, 237, 21, 86, 119, 7, 174, 94, 93,
           202, 8, 157, 233, 114, 224, 127, 59, 134, 4, 80, 226, 163, 183, 14>>,
         <<0, 24, 55, 193, 190, 142, 41, 149, 236, 17, 205, 162, 176, 102, 21, 27, 226,
           207, 180, 138, 223, 158, 71, 177, 81, 212, 106, 218, 179, 162, 28, 223, 103,
           128, 0, 0, 44>>>>,
       <<181, 14, 66, 225, 42, 0, 185, 224, 171, 200, 217, 161, 206, 208, 245, 112, 37,
         42, 252, 240, 126, 215, 70, 225, 109, 157, 58, 18, 220, 199, 216, 131, 69, 211,
         176, 232, 32, 109, 177, 10, 8, 213, 85, 49, 124, 126, 36, 92, 91, 189, 18, 37,
         76, 233, 104, 243, 199, 154, 149, 157, 78, 106, 249, 138>>>>,
     <<<<<<121, 35, 64, 141, 173, 211, 199, 181, 110, 237, 21, 86, 119, 7, 174, 94, 93,
           202, 8, 157, 233, 114, 224, 127, 59, 134, 4, 80, 226, 163, 183, 14>>,
         <<0, 24, 55, 193, 190, 142, 41, 149, 236, 17, 205, 162, 176, 102, 21, 27, 226,
           207, 180, 138, 223, 158, 71, 177, 81, 212, 106, 218, 179, 162, 28, 223, 103,
           128, 0, 0, 84>>>>,
       <<219, 50, 84, 170, 148, 39, 184, 66, 42, 177, 103, 48, 211, 155, 147, 28, 51,
         232, 52, 34, 103, 190, 181, 185, 82, 234, 116, 204, 63, 133, 110, 53, 202, 106,
         146, 118, 241, 53, 232, 54, 162, 195, 34, 47, 73, 1, 204, 15, 50, 58, 220, 187,
         57, 247, 70, 239, 60, 26, 178, 183, 70, 2, 9, 224>>>>,
     <<<<<<121, 35, 64, 141, 173, 211, 199, 181, 110, 237, 21, 86, 119, 7, 174, 94, 93,
           202, 8, 157, 233, 114, 224, 127, 59, 134, 4, 80, 226, 163, 183, 14>>,
         <<0, 24, 55, 193, 190, 142, 41, 149, 236, 17, 205, 162, 176, 102, 21, 27, 226,
           207, 180, 138, 223, 158, 71, 177, 81, 212, 106, 218, 179, 162, 28, 223, 103,
           255, 255, 255, 255>>>>,
       <<237, 38, 96, 138, 134, 78, 78, 19, 219, 222, 30, 243, 53, 11, 34, 35, 5, 252,
         212, 76, 51, 96, 136, 196, 37, 128, 83, 93, 176, 141, 202, 132, 82, 174, 193,
         85, 198, 206, 195, 247, 168, 39, 245, 187, 157, 71, 5, 89, 74, 90, 6, 174, 125,
         253, 210, 151, 68, 155, 51, 163, 153, 211, 32, 131>>>>,
     <<<<<<121, 35, 64, 141, 173, 211, 199, 181, 110, 237, 21, 86, 119, 7, 174, 94, 93,
           202, 8, 157, 233, 114, 224, 127, 59, 134, 4, 80, 226, 163, 183, 14>>,
         <<3, 217, 2, 243, 95, 86, 14, 4, 112, 198, 51, 19, 199, 54, 145, 104, 217, 215,
           223, 45, 73, 191, 41, 95, 217, 251, 124, 177, 9, 204, 238, 4, 148, 0, 0, 0, 0>>>>,
       <<162, 112, 216, 205, 79, 56, 47, 246, 25, 209, 109, 175, 183, 114, 117, 231, 41,
         71, 192, 80, 8, 151, 236, 22, 254, 204, 22, 55, 97, 147, 143, 79, 224, 230, 80,
         58, 192, 87, 207, 93, 199, 110, 7, 53, 229, 109, 212, 77, 25, 59, 46, 158, 39,
         28, 194, 212, 107, 199, 89, 201, 155, 2, 30, 60>>>>,
     <<<<<<121, 35, 64, 141, 173, 211, 199, 181, 110, 237, 21, 86, 119, 7, 174, 94, 93,
           202, 8, 157, 233, 114, 224, 127, 59, 134, 4, 80, 226, 163, 183, 14>>,
         <<3, 217, 2, 243, 95, 86, 14, 4, 112, 198, 51, 19, 199, 54, 145, 104, 217, 215,
           223, 45, 73, 191, 41, 95, 217, 251, 124, 177, 9, 204, 238, 4, 148, 0, 0, 0,
           111>>>>,
       <<57, 98, 74, 121, 171, 107, 6, 107, 96, 172, 31, 141, 38, 42, 87, 244, 134, 81,
         254, 146, 78, 248, 246, 191, 101, 4, 78, 89, 213, 244, 23, 212, 172, 242, 198,
         152, 64, 208, 14, 255, 47, 69, 126, 192, 89, 26, 99, 222, 214, 59, 173, 138, 62,
         169, 248, 81, 59, 120, 204, 168, 119, 53, 65, 132>>>>,
     <<<<<<121, 35, 64, 141, 173, 211, 199, 181, 110, 237, 21, 86, 119, 7, 174, 94, 93,
           202, 8, 157, 233, 114, 224, 127, 59, 134, 4, 80, 226, 163, 183, 14>>,
         <<3, 217, 2, 243, 95, 86, 14, 4, 112, 198, 51, 19, 199, 54, 145, 104, 217, 215,
           223, 45, 73, 191, 41, 95, 217, 251, 124, 177, 9, 204, 238, 4, 148, 0, 0, 0,
           11>>>>,
       <<71, 245, 254, 140, 181, 162, 196, 110, 127, 167, 128, 176, 51, 122, 10, 221,
         136, 225, 97, 252, 110, 110, 87, 8, 135, 241, 8, 231, 111, 190, 227, 62, 214,
         157, 228, 15, 39, 94, 185, 178, 233, 139, 3, 144, 152, 222, 210, 243, 233, 78,
         98, 250, 160, 197, 171, 232, 219, 204, 204, 63, 152, 244, 156, 125>>>>,
     <<<<<<121, 35, 64, 141, 173, 211, 199, 181, 110, 237, 21, 86, 119, 7, 174, 94, 93,
           202, 8, 157, 233, 114, 224, 127, 59, 134, 4, 80, 226, 163, 183, 14>>,
         <<3, 217, 2, 243, 95, 86, 14, 4, 112, 198, 51, 19, 199, 54, 145, 104, 217, 215,
           223, 45, 73, 191, 41, 95, 217, 251, 124, 177, 9, 204, 238, 4, 148, 0, 0, 0, 1>>>>,
       <<169, 134, 238, 50, 54, 178, 2, 90, 94, 214, 105, 185, 92, 127, 95, 186, 100, 24,
         244, 142, 214, 84, 182, 144, 40, 74, 235, 93, 235, 189, 51, 27, 92, 72, 145,
         125, 104, 56, 182, 102, 174, 177, 30, 172, 124, 79, 152, 248, 7, 119, 155, 87,
         199, 82, 46, 56, 80, 151, 25, 238, 177, 231, 165, 146>>>>,
     <<<<<<121, 35, 64, 141, 173, 211, 199, 181, 110, 237, 21, 86, 119, 7, 174, 94, 93,
           202, 8, 157, 233, 114, 224, 127, 59, 134, 4, 80, 226, 163, 183, 14>>,
         <<3, 217, 2, 243, 95, 86, 14, 4, 112, 198, 51, 19, 199, 54, 145, 104, 217, 215,
           223, 45, 73, 191, 41, 95, 217, 251, 124, 177, 9, 204, 238, 4, 148, 0, 0, 4,
           87>>>>,
       <<117, 229, 13, 124, 15, 157, 136, 100, 252, 107, 155, 245, 144, 24, 16, 89, 62,
         74, 24, 26, 226, 138, 167, 50, 133, 150, 106, 233, 202, 222, 33, 229, 3, 64,
         253, 228, 75, 85, 12, 160, 66, 114, 195, 67, 98, 203, 194, 249, 175, 102, 94,
         173, 201, 76, 175, 8, 66, 73, 252, 188, 16, 248, 119, 186>>>>,
     <<<<<<130, 9, 246, 223, 9, 199, 201, 41, 153, 93, 183, 89, 238, 254, 53, 154, 96,
           11, 16, 106, 236, 50, 164, 20, 17, 63, 50, 211, 224, 85, 149, 228>>,
         <<0, 6, 149, 70, 67, 255, 123, 42, 222, 148, 104, 47, 222, 161, 4, 163, 28, 165,
           161, 155, 233, 98, 222, 238, 62, 25, 178, 72, 12, 49, 99, 90, 215, 128, 0, 0,
           44>>>>,
       <<137, 8, 234, 248, 205, 33, 61, 144, 55, 175, 21, 248, 67, 7, 11, 22, 34, 237,
         252, 58, 59, 184, 56, 149, 86, 86, 235, 56, 72, 111, 206, 135, 1, 145, 59, 6,
         167, 37, 210, 98, 222, 243, 57, 128, 13, 147, 5, 164, 135, 39, 66, 102, 186, 50,
         229, 15, 213, 78, 163, 16, 172, 16, 203, 138>>>>>>
    \o <<<<<<<<130, 9, 246, 223, 9, 199, 201, 41, 153, 93, 183, 89, 238, 254, 53, 154, 96,
           11, 16, 106, 236, 50, 164, 20, 17, 63, 50, 211, 224, 85, 149, 228>>,
         <<0, 6, 149, 70, 67, 255, 123, 42, 222, 148, 104, 47, 222, 161, 4, 163, 28, 165,
           161, 155, 233, 98, 222, 238, 62, 25, 178, 72, 12, 49, 99, 90, 215, 128, 0, 0,
           84>>>>,
       <<229, 47, 24, 34, 78, 226, 110, 186, 122, 11, 8, 7, 238, 250, 19, 18, 153, 185,
         164, 75, 178, 60, 77, 147, 11, 196, 115, 118, 134, 9, 199, 197, 103, 73, 188,
         22, 42, 60, 176, 98, 157, 245, 224, 14, 203, 252, 190, 203, 219, 52, 119, 249,
         124, 244, 224, 2, 197, 227, 144, 238, 190, 172, 161, 139>>>>,
     <<<<<<131, 230, 117, 127, 99, 0, 156, 124, 132, 82, 146, 211, 236, 244, 40, 104, 72,
           211, 120, 246, 3, 99, 143, 82, 132, 48, 105, 136, 244, 36, 239, 52>>,
         <<0, 169, 68, 56, 44, 167, 78, 54, 181, 245, 9, 58, 211, 160, 240, 184, 237,
           142, 37, 60, 52, 21, 80, 5, 253, 254, 190, 207, 138, 50, 66, 10, 233, 128, 0,
           0, 0>>>>,
       <<121, 155, 90, 41, 21, 248, 178, 181, 135, 168, 109, 106, 44, 226, 250, 98, 158,
         75, 50, 231, 44, 153, 253, 100, 79, 146, 77, 34, 241, 231, 76, 31, 59, 104, 213,
         82, 179, 23, 53, 102, 64, 1, 47, 198, 153, 175, 128, 38, 207, 185, 196, 47, 74,
         214, 142, 22, 17, 225, 86, 115, 10, 131, 138, 166>>>>,
     <<<<<<132, 173, 180, 15, 26, 165, 176, 171, 134, 193, 102, 226, 26, 122, 164, 163,
           45, 115, 42, 41, 189, 83, 232, 35, 66, 87, 159, 73, 183, 169, 163, 253>>,
         <<2, 143, 187, 76, 223, 141, 219, 44, 132, 3, 147, 112, 98, 114, 65, 167, 102,
           205, 166, 247, 211, 144, 246, 89, 22, 193, 66, 99, 115, 16, 9, 45, 216, 0, 0,
           0, 0>>>>,
       <<8, 53, 175, 173, 107, 135, 183, 139, 231, 203, 159, 221, 78, 188, 133, 60, 69,
         72, 58, 149, 93, 248, 239, 229, 42, 3, 17, 210, 152, 29, 103, 36, 85, 74, 188,
         71, 124, 164, 213, 87, 56, 28, 247, 222, 183, 17, 139, 146, 173, 0, 48, 86, 105,
         140, 176, 222, 176, 104, 83, 9, 176, 132, 209, 98>>>>,
     <<<<<<132, 173, 180, 15, 26, 165, 176, 171, 134, 193, 102, 226, 26, 122, 164, 163,
           45, 115, 42, 41, 189, 83, 232, 35, 66, 87, 159, 73, 183, 169, 163, 253>>,
         <<2, 143, 187, 76, 223, 141, 219, 44, 132, 3, 147, 112, 98, 114, 65, 167, 102,
           205, 166, 247, 211, 144, 246, 89, 22, 193, 66, 99, 115, 16, 9, 45, 216, 0, 0,
           0, 1>>>>,
       <<9, 41, 143, 25, 151, 16, 146, 220, 149, 121, 101, 128, 24, 123, 26, 126, 246,
         155, 189, 43, 52, 215, 123, 185, 198, 254, 175, 210, 204, 211, 4, 72, 208, 120,
         209, 0, 4, 135, 212, 90, 202, 82, 178, 213, 163, 191, 220, 255, 227, 250, 70,
         119, 242, 186, 60, 242, 25, 84, 74, 18, 133, 32, 7, 89>>>>,
     <<<<<<132, 173, 180, 15, 26, 165, 176, 171, 134, 193, 102, 226, 26, 122, 164, 163,
           45, 115, 42, 41, 189, 83, 232, 35, 66, 87, 159, 73, 183, 169, 163, 253>>,
         <<2, 143, 187, 76, 223, 141, 219, 44, 132, 3, 147, 112, 98, 114, 65, 167, 102,
           205, 166, 247, 211, 144, 246, 89, 22, 193, 66, 99, 115, 16, 9, 45, 216, 0, 0,
           0, 2>>>>,
       <<97, 100, 214, 175, 236, 22, 92, 108, 194, 1, 13, 111, 53, 251, 204, 155, 85,
         188, 115, 208, 36, 111, 78, 24, 29, 50, 13, 41, 217, 169, 217, 143, 149, 151,
         131, 161, 141, 90, 146, 140, 201, 105, 78, 54, 65, 127, 235, 105, 3, 137, 11,
         180, 172, 232, 236, 178, 50, 64, 27, 33, 172, 237, 93, 134>>>>,
     <<<<<<138, 150, 188, 105, 185, 182, 122, 94, 1, 199, 199, 221, 38, 174, 24, 100, 18,
           2, 230, 120, 153, 87, 11, 225, 110, 116, 66, 62, 47, 40, 88, 86>>,
         <<3, 111, 218, 52, 90, 107, 210, 95, 62, 39, 21, 195, 36, 120, 229, 154, 142,
           40, 226, 191, 16, 111, 14, 241, 239, 36, 40, 71, 17, 141, 197, 112, 45, 0, 0,
           0, 0>>>>,
       <<107, 49, 185, 167, 5, 119, 155, 153, 75, 240, 62, 26, 23, 22, 87, 151, 209, 129,
         88, 199, 78, 71, 124, 67, 177, 135, 16, 17, 243, 199, 212, 230, 171, 59, 170,
         102, 125, 8, 196, 137, 130, 106, 202, 245, 32, 3, 171, 191, 10, 221, 14, 48, 39,
         91, 50, 225, 41, 4, 47, 31, 245, 234, 222, 140>>>>,
     <<<<<<138, 150, 188, 105, 185, 182, 122, 94, 1, 199, 199, 221, 38, 174, 24, 100, 18,
           2, 230, 120, 153, 87, 11, 225, 110, 116, 66, 62, 47, 40, 88, 86>>,
         <<3, 111, 218, 52, 90, 107, 210, 95, 62, 39, 21, 195, 36, 120, 229, 154, 142,
           40, 226, 191, 16, 111, 14, 241, 239, 36, 40, 71, 17, 141, 197, 112, 45, 0, 0,
           0, 1>>>>,
       <<159, 203, 200, 96, 211, 57, 154, 2, 39, 60, 32, 159, 160, 28, 87, 233, 43, 220,
         187, 69, 130, 38, 222, 109, 138, 203, 96, 163, 54, 132, 205, 115, 107, 166, 43,
         217, 137, 183, 55, 32, 165, 166, 71, 87, 10, 136, 228, 41, 123, 119, 209, 5,
         120, 143, 183, 41, 169, 251, 230, 68, 163, 152, 231, 255>>>>,
     <<<<<<138, 150, 188, 105, 185, 182, 122, 94, 1, 199, 199, 221, 38, 174, 24, 100, 18,
           2, 230, 120, 153, 87, 11, 225, 110, 116, 66, 62, 47, 40, 88, 86>>,
         <<3, 111, 218, 52, 90, 107, 210, 95, 62, 39, 21, 195, 36, 120, 229, 154, 142,
           40, 226, 191, 16, 111, 14, 241, 239, 36, 40, 71, 17, 141, 197, 112, 45, 0, 0,
           0, 2>>>>,
       <<126, 132, 125, 195, 34, 48, 195, 191, 103, 62, 250, 255, 33, 58, 50, 164, 140,
         242, 133, 223, 50, 11, 169, 162, 63, 114, 58, 194, 126, 251, 104, 111, 194, 221,
         166, 180, 246, 69, 171, 104, 18, 34, 152, 7, 160, 191, 115, 131, 209, 183, 56,
         122, 31, 60, 131, 147, 32, 157, 152, 16, 173, 188, 109, 165>>>>,
     <<<<<<144, 140, 127, 110, 95, 183, 9, 41, 240, 242, 243, 142, 143, 71, 115, 197,
           135, 210, 241, 68, 84, 225, 65, 25, 96, 121, 188, 109, 2, 231, 142, 186>>,
         <<2, 93, 151, 88, 224, 86, 168, 181, 228, 117, 36, 170, 249, 9, 200, 156, 9,
           106, 52, 255, 104, 170, 250, 249, 36, 222, 134, 65, 208, 62, 51, 44, 221, 0,
           0, 0, 0>>>>,
       <<47, 206, 229, 247, 226, 189, 68, 37, 201, 70, 161, 153, 147, 6, 154, 78, 85,
         230, 15, 24, 4, 200, 252, 121, 22, 240, 122, 48, 4, 38, 56, 69, 200, 246, 15,
         53, 117, 48, 106, 191, 143, 189, 211, 26, 165, 109, 45, 247, 88, 97, 182, 68,
         114, 24, 59, 85, 90, 126, 154, 188, 191, 193, 54, 115>>>>,
     <<<<<<144, 140, 127, 110, 95, 183, 9, 41, 240, 242, 243, 142, 143, 71, 115, 197,
           135, 210, 241, 68, 84, 225, 65, 25, 96, 121, 188, 109, 2, 231, 142, 186>>,
         <<2, 93, 151, 88, 224, 86, 168, 181, 228, 117, 36, 170, 249, 9, 200, 156, 9,
           106, 52, 255, 104, 170, 250, 249, 36, 222, 134, 65, 208, 62, 51, 44, 221, 0,
           0, 0, 1>>>>,
       <<202, 219, 31, 232, 62, 221, 157, 182, 73, 21, 209, 129, 126, 12, 166, 207, 60,
         49, 127, 99, 188, 255, 179, 221, 206, 70, 71, 173, 253, 250, 216, 152, 132, 173,
         180, 15, 26, 165, 176, 171, 134, 193, 102, 226, 26, 122, 164, 163, 45, 115, 42,
         41, 189, 83, 232, 35, 66, 87, 159, 73, 183, 169, 163, 253>>>>,
     <<<<<<145, 251, 227, 73, 112, 203, 150, 45, 170, 229, 40, 89, 37, 37, 65, 221, 83,
           64, 61, 92, 141, 178, 254, 27, 247, 42, 118, 44, 117, 146, 49, 247>>,
         <<2, 67, 86, 230, 32, 207, 204, 119, 185, 226, 177, 161, 131, 190, 128, 86, 234,
           85, 66, 95, 255, 179, 54, 129, 186, 104, 42, 131, 52, 8, 110, 217, 85, 0, 0,
           0, 0>>>>,
       <<54, 27, 24, 108, 90, 194, 194, 89, 91, 199, 75, 247, 97, 128, 106, 107, 135,
         107, 9, 40, 79, 100, 1, 236, 130, 133, 221, 70, 96, 184, 104, 249, 71, 125, 123,
         244, 23, 92, 48, 142, 115, 106, 16, 168, 51, 166, 37, 243, 53, 159, 176, 214,
         131, 206, 151, 210, 160, 52, 254, 99, 16, 238, 76, 185>>>>,
     <<<<<<145, 251, 227, 73, 112, 203, 150, 45, 170, 229, 40, 89, 37, 37, 65, 221, 83,
           64, 61, 92, 141, 178, 254, 27, 247, 42, 118, 44, 117, 146, 49, 247>>,
         <<2, 67, 86, 230, 32, 207, 204, 119, 185, 226, 177, 161, 131, 190, 128, 86, 234,
           85, 66, 95, 255, 179, 54, 129, 186, 104, 42, 131, 52, 8, 110, 217, 85, 0, 0,
           0, 1>>>>,
       <<108, 73, 242, 107, 113, 151, 191, 226, 165, 189, 235, 115, 43, 213, 44, 141,
         165, 103, 207, 37, 180, 222, 203, 91, 73, 147, 42, 247, 33, 29, 176, 150, 85,
         227, 232, 181, 234, 17, 78, 164, 150, 200, 237, 119, 247, 196, 15, 148, 167, 15,
         47, 147, 106, 139, 20, 161, 128, 157, 169, 139, 129, 26, 22, 121>>>>,
     <<<<<<145, 251, 227, 73, 112, 203, 150, 45, 170, 229, 40, 89, 37, 37, 65, 221, 83,
           64, 61, 92, 141, 178, 254, 27, 247, 42, 118, 44, 117, 146, 49, 247>>,
         <<2, 67, 86, 230, 32, 207, 204, 119, 185, 226, 177, 161, 131, 190, 128, 86, 234,
           85, 66, 95, 255, 179, 54, 129, 186, 104, 42, 131, 52, 8, 110, 217, 85, 0, 0,
           0, 2>>>>,
       <<100, 227, 81, 142, 25, 196, 29, 111, 211, 14, 58, 133, 253, 197, 175, 139, 246,
         90, 135, 196, 26, 230, 93, 148, 193, 233, 182, 209, 238, 80, 155, 124, 90, 128,
         88, 178, 79, 137, 158, 143, 164, 5, 54, 116, 61, 11, 114, 168, 139, 36, 46, 51,
         28, 69, 13, 244, 214, 147, 46, 68, 36, 103, 161, 85>>>>,
     <<<<<<147, 215, 87, 176, 26, 141, 42, 213, 62, 95, 42, 84, 212, 223, 255, 92, 54,
           137, 44, 238, 11, 38, 229, 15, 50, 242, 211, 64, 53, 175, 162, 111>>,
         <<2, 54, 215, 108, 96, 103, 78, 56, 82, 82, 238, 18, 237, 47, 154, 203, 33, 199,
           206, 197, 82, 94, 43, 195, 18, 155, 186, 47, 11, 136, 201, 240, 107, 0, 0, 0,
           0>>>>,
       <<229, 131, 75, 232, 48, 109, 189, 70, 94, 250, 2, 149, 113, 13, 27, 102, 174, 50,
         181, 41, 164, 190, 176, 156, 78, 133, 194, 124, 164, 155, 197, 171, 94, 163,
         164, 230, 195, 19, 61, 30, 34, 152, 211, 11, 232, 153, 38, 203, 75, 173, 157,
         43, 171, 219, 47, 213, 141, 47, 207, 246, 171, 35, 43, 93>>>>,
     <<<<<<147, 215, 87, 176, 26, 141, 42, 213, 62, 95, 42, 84, 212, 223, 255, 92, 54,
           137, 44, 238, 11, 38, 229, 15, 50, 242, 211, 64, 53, 175, 162, 111>>,
         <<2, 54, 215, 108, 96, 103, 78, 56, 82, 82, 238, 18, 237, 47, 154, 203, 33, 199,
           206, 197, 82, 94, 43, 195, 18, 155, 186, 47, 11, 136, 201, 240, 107, 0, 0, 0,
           1>>>>,
       <<132, 128, 245, 57, 159, 139, 168, 132, 191, 130, 172, 56, 93, 99, 12, 73, 214,
         100, 148, 185, 27, 35, 80, 16, 202, 25, 92, 39, 206, 207, 138, 168, 171, 236,
         111, 233, 35, 245, 101, 221, 242, 137, 65, 218, 235, 73, 236, 241, 128, 161, 86,
         8, 177, 111, 173, 132, 190, 106, 206, 17, 108, 48, 182, 15>>>>,
     <<<<<<147, 215, 87, 176, 26, 141, 42, 213, 62, 95, 42, 84, 212, 223, 255, 92, 54,
           137, 44, 238, 11, 38, 229, 15, 50, 242, 211, 64, 53, 175, 162, 111>>,
         <<2, 54, 215, 108, 96, 103, 78, 56, 82, 82, 238, 18, 237, 47, 154, 203, 33, 199,
           206, 197, 82, 94, 43, 195, 18, 155, 186, 47, 11, 136, 201, 240, 107, 0, 0, 0,
           2>>>>,
       <<121, 24, 189, 181, 130, 130, 127, 132, 37, 67, 234, 91, 123, 254, 16, 187, 136,
         207, 226, 160, 41, 132, 233, 133, 179, 204, 86, 84, 21, 201, 183, 95, 43, 254,
         13, 116, 129, 132, 16, 172, 18, 120, 140, 35, 179, 129, 6, 178, 19, 49, 231,
         168, 234, 41, 37, 173, 237, 121, 38, 90, 222, 65, 150, 124>>>>>>
    \o <<<<<<<<147, 225, 216, 46, 122, 75, 170, 176, 4, 230, 238, 151, 114, 201, 20, 56, 78,
           39, 172, 172, 176, 119, 217, 81, 160, 27, 252, 65, 124, 131, 137, 227>>,
         <<3, 29, 197, 48, 138, 5, 11, 197, 91, 142, 233, 171, 159, 254, 9, 149, 126, 76,
           234, 107, 117, 183, 118, 64, 37, 201, 135, 252, 143, 178, 57, 97, 6, 0, 0, 0,
           0>>>>,
       <<118, 4, 159, 116, 246, 164, 233, 251, 235, 212, 214, 102, 57, 204, 186, 72, 19,
         205, 109, 178, 191, 57, 219, 26, 202, 18, 180, 14, 240, 97, 140, 15, 9, 103,
         148, 90, 253, 108, 124, 215, 76, 209, 191, 234, 7, 119, 55, 154, 97, 42, 108,
         100, 242, 74, 118, 158, 93, 9, 236, 169, 105, 116, 232, 249>>>>,
     <<<<<<147, 225, 216, 46, 122, 75, 170, 176, 4, 230, 238, 151, 114, 201, 20, 56, 78,
           39, 172, 172, 176, 119, 217, 81, 160, 27, 252, 65, 124, 131, 137, 227>>,
         <<3, 29, 197, 48, 138, 5, 11, 197, 91, 142, 233, 171, 159, 254, 9, 149, 126, 76,
           234, 107, 117, 183, 118, 64, 37, 201, 135, 252, 143, 178, 57, 97, 6, 0, 0, 0,
           1>>>>,
       <<42, 109, 78, 231, 6, 21, 140, 252, 213, 198, 109, 154, 127, 175, 100, 28, 231,
         34, 193, 16, 42, 240, 235, 209, 224, 94, 122, 3, 183, 187, 253, 0, 184, 165, 98,
         92, 124, 243, 142, 196, 253, 46, 96, 124, 143, 231, 234, 167, 152, 83, 156, 131,
         99, 126, 232, 166, 204, 102, 81, 103, 23, 178, 118, 167>>>>,
     <<<<<<147, 225, 216, 46, 122, 75, 170, 176, 4, 230, 238, 151, 114, 201, 20, 56, 78,
           39, 172, 172, 176, 119, 217, 81, 160, 27, 252, 65, 124, 131, 137, 227>>,
         <<3, 29, 197, 48, 138, 5, 11, 197, 91, 142, 233, 171, 159, 254, 9, 149, 126, 76,
           234, 107, 117, 183, 118, 64, 37, 201, 135, 252, 143, 178, 57, 97, 6, 0, 0, 0,
           2>>>>,
       <<196, 251, 137, 250, 8, 190, 222, 37, 221, 199, 229, 7, 168, 233, 64, 187, 65,
         139, 0, 1, 48, 213, 68, 205, 32, 20, 1, 69, 233, 138, 248, 79, 173, 77, 22, 181,
         77, 110, 48, 186, 194, 66, 47, 18, 72, 26, 249, 138, 221, 180, 54, 254, 136, 98,
         48, 1, 215, 208, 71, 152, 239, 134, 130, 7>>>>,
     <<<<<<153, 221, 184, 25, 61, 106, 70, 221, 152, 154, 6, 9, 236, 176, 236, 30, 21,
           249, 225, 169, 89, 148, 227, 83, 245, 93, 75, 60, 160, 11, 99, 211>>,
         <<2, 13, 165, 25, 55, 92, 195, 208, 221, 130, 44, 108, 86, 65, 63, 226, 200, 6,
           27, 198, 157, 217, 185, 38, 185, 41, 94, 77, 27, 77, 10, 140, 45, 0, 0, 0, 0>>>>,
       <<98, 60, 171, 65, 80, 57, 38, 113, 121, 207, 90, 97, 144, 132, 178, 212, 138,
         217, 159, 24, 28, 208, 161, 252, 188, 13, 220, 75, 231, 162, 49, 171, 53, 173,
         151, 191, 81, 238, 188, 81, 0, 95, 134, 222, 144, 223, 46, 8, 23, 102, 211, 38,
         21, 207, 168, 140, 0, 228, 170, 0, 113, 91, 134, 212>>>>,
     <<<<<<153, 221, 184, 25, 61, 106, 70, 221, 152, 154, 6, 9, 236, 176, 236, 30, 21,
           249, 225, 169, 89, 148, 227, 83, 245, 93, 75, 60, 160, 11, 99, 211>>,
         <<2, 13, 165, 25, 55, 92, 195, 208, 221, 130, 44, 108, 86, 65, 63, 226, 200, 6,
           27, 198, 157, 217, 185, 38, 185, 41, 94, 77, 27, 77, 10, 140, 45, 0, 0, 0, 1>>>>,
       <<109, 4, 167, 47, 173, 187, 136, 1, 33, 118, 21, 104, 140, 252, 23, 236, 35, 2,
         225, 31, 141, 25, 117, 21, 66, 168, 3, 178, 211, 36, 113, 193, 185, 202, 127,
         194, 255, 129, 49, 120, 247, 192, 103, 185, 56, 63, 255, 61, 114, 133, 144, 8,
         235, 235, 151, 185, 143, 43, 43, 211, 186, 207, 55, 178>>>>,
     <<<<<<154, 211, 220, 194, 5, 15, 121, 157, 107, 180, 178, 97, 229, 52, 191, 91, 112,
           9, 158, 85, 96, 149, 107, 116, 218, 90, 115, 7, 178, 126, 110, 168>>,
         <<0, 215, 208, 167, 184, 128, 127, 135, 253, 83, 13, 236, 196, 202, 224, 106,
           71, 13, 193, 18, 176, 213, 250, 87, 210, 102, 6, 4, 73, 82, 42, 180, 84, 128,
           0, 0, 44>>>>,
       <<253, 199, 238, 52, 170, 211, 113, 134, 170, 32, 101, 240, 118, 9, 25, 178, 83,
         3, 76, 50, 213, 225, 61, 213, 131, 16, 183, 69, 201, 178, 191, 63, 78, 74, 155,
         114, 40, 202, 99, 8, 6, 143, 69, 33, 127, 35, 171, 34, 192, 56, 87, 91, 89, 14,
         183, 182, 118, 195, 98, 253, 86, 141, 13, 117>>>>,
     <<<<<<154, 211, 220, 194, 5, 15, 121, 157, 107, 180, 178, 97, 229, 52, 191, 91, 112,
           9, 158, 85, 96, 149, 107, 116, 218, 90, 115, 7, 178, 126, 110, 168>>,
         <<0, 215, 208, 167, 184, 128, 127, 135, 253, 83, 13, 236, 196, 202, 224, 106,
           71, 13, 193, 18, 176, 213, 250, 87, 210, 102, 6, 4, 73, 82, 42, 180, 84, 128,
           0, 0, 84>>>>,
       <<169, 1, 135, 78, 68, 66, 30, 128, 27, 45, 146, 71, 5, 49, 63, 22, 22, 80, 242,
         234, 100, 165, 223, 92, 93, 253, 102, 132, 4, 249, 183, 109, 208, 74, 115, 64,
         195, 125, 120, 91, 204, 127, 207, 98, 96, 154, 51, 58, 31, 44, 207, 100, 228,
         18, 219, 173, 56, 186, 144, 213, 36, 76, 33, 196>>>>,
     <<<<<<155, 199, 21, 105, 40, 53, 75, 181, 240, 70, 69, 14, 43, 230, 26, 158, 20, 60,
           210, 29, 121, 55, 203, 103, 116, 26, 190, 149, 232, 3, 56, 22>>,
         <<0, 53, 37, 150, 23, 93, 229, 85, 216, 246, 14, 243, 105, 104, 168, 215, 69,
           234, 177, 25, 160, 23, 162, 70, 198, 80, 195, 2, 63, 62, 40, 33, 70, 128, 0,
           0, 0>>>>,
       <<116, 30, 162, 21, 73, 104, 224, 220, 254, 250, 71, 106, 56, 71, 225, 167, 163,
         116, 34, 147, 253, 173, 191, 55, 173, 251, 205, 74, 244, 25, 233, 163, 131, 230,
         117, 127, 99, 0, 156, 124, 132, 82, 146, 211, 236, 244, 40, 104, 72, 211, 120,
         246, 3, 99, 143, 82, 132, 48, 105, 136, 244, 36, 239, 52>>>>,
     <<<<<<155, 199, 21, 105, 40, 53, 75, 181, 240, 70, 69, 14, 43, 230, 26, 158, 20, 60,
           210, 29, 121, 55, 203, 103, 116, 26, 190, 149, 232, 3, 56, 22>>,
         <<3, 223, 19, 154, 99, 7, 192, 235, 11, 124, 82, 184, 114, 155, 194, 143, 19,
           232, 209, 129, 109, 87, 90, 66, 122, 203, 238, 94, 152, 254, 213, 46, 93, 0,
           0, 0, 0>>>>,
       <<129, 20, 177, 161, 187, 154, 54, 126, 6, 178, 132, 90, 93, 88, 180, 171, 25, 84,
         231, 42, 103, 75, 93, 198, 192, 136, 99, 30, 168, 94, 58, 244, 112, 23, 55, 12,
         96, 92, 201, 35, 23, 68, 62, 184, 198, 180, 88, 69, 149, 98, 198, 36, 212, 211,
         38, 150, 123, 165, 244, 143, 26, 111, 9, 56>>>>,
     <<<<<<157, 171, 166, 85, 94, 167, 175, 190, 51, 50, 68, 181, 0, 199, 24, 239, 200,
           198, 72, 60, 88, 33, 23, 92, 225, 36, 248, 29, 156, 79, 184, 29>>,
         <<0, 118, 174, 209, 186, 126, 9, 123, 18, 119, 63, 114, 148, 213, 135, 35, 117,
           219, 129, 125, 97, 131, 143, 160, 190, 229, 56, 173, 175, 61, 132, 195, 218,
           128, 0, 0, 0>>>>,
       <<64, 120, 103, 8, 137, 152, 11, 42, 37, 98, 108, 208, 106, 100, 150, 46, 157,
         155, 252, 239, 131, 197, 207, 64, 60, 85, 24, 205, 44, 78, 132, 24, 219, 216,
         160, 69, 181, 196, 56, 249, 51, 208, 31, 168, 167, 177, 33, 23, 231, 251, 80,
         137, 13, 220, 127, 68, 222, 117, 254, 222, 11, 209, 243, 2>>>>,
     <<<<<<162, 135, 44, 88, 68, 35, 60, 74, 112, 123, 223, 119, 96, 176, 27, 97, 7, 116,
           53, 210, 183, 115, 37, 193, 143, 170, 70, 167, 104, 84, 197, 14>>,
         <<3, 44, 247, 41, 215, 246, 66, 226, 18, 194, 103, 73, 195, 50, 217, 126, 108,
           48, 224, 38, 244, 235, 115, 237, 221, 42, 221, 173, 56, 242, 152, 172, 89, 0,
           0, 0, 0>>>>,
       <<209, 12, 158, 58, 141, 158, 199, 15, 70, 110, 239, 160, 108, 162, 50, 247, 91,
         187, 223, 37, 146, 82, 28, 47, 126, 180, 134, 195, 62, 229, 194, 117, 147, 60,
         134, 188, 31, 116, 35, 142, 69, 91, 232, 114, 101, 136, 189, 50, 223, 224, 129,
         83, 89, 163, 89, 131, 38, 66, 7, 121, 17, 60, 80, 112>>>>,
     <<<<<<162, 135, 44, 88, 68, 35, 60, 74, 112, 123, 223, 119, 96, 176, 27, 97, 7, 116,
           53, 210, 183, 115, 37, 193, 143, 170, 70, 167, 104, 84, 197, 14>>,
         <<3, 44, 247, 41, 215, 246, 66, 226, 18, 194, 103, 73, 195, 50, 217, 126, 108,
           48, 224, 38, 244, 235, 115, 237, 221, 42, 221, 173, 56, 242, 152, 172, 89, 0,
           0, 0, 1>>>>,
       <<176, 194, 25, 147, 201, 66, 15, 85, 113, 52, 196, 174, 5, 228, 223, 18, 58, 25,
         41, 243, 21, 135, 209, 237, 61, 79, 124, 180, 47, 95, 89, 192, 75, 179, 65, 122,
         112, 98, 34, 41, 19, 8, 50, 6, 86, 204, 188, 28, 238, 247, 211, 86, 192, 106,
         23, 182, 237, 68, 108, 13, 122, 189, 64, 2>>>>,
     <<<<<<162, 135, 44, 88, 68, 35, 60, 74, 112, 123, 223, 119, 96, 176, 27, 97, 7, 116,
           53, 210, 183, 115, 37, 193, 143, 170, 70, 167, 104, 84, 197, 14>>,
         <<3, 44, 247, 41, 215, 246, 66, 226, 18, 194, 103, 73, 195, 50, 217, 126, 108,
           48, 224, 38, 244, 235, 115, 237, 221, 42, 221, 173, 56, 242, 152, 172, 89, 0,
           0, 0, 2>>>>,
       <<30, 121, 57, 125, 209, 22, 117, 219, 2, 94, 119, 208, 28, 112, 151, 104, 244,
         241, 122, 21, 23, 166, 119, 84, 197, 129, 40, 250, 238, 94, 143, 197, 212, 52,
         93, 175, 35, 2, 63, 238, 239, 192, 106, 163, 80, 57, 195, 40, 145, 81, 9, 254,
         188, 50, 24, 136, 220, 178, 214, 154, 152, 131, 38, 242>>>>,
     <<<<<<163, 90, 154, 254, 113, 138, 50, 180, 100, 4, 228, 6, 85, 23, 62, 6, 213, 98,
           47, 68, 75, 149, 15, 18, 234, 83, 75, 35, 72, 247, 143, 40>>,
         <<2, 76, 179, 236, 199, 237, 10, 208, 222, 159, 250, 45, 167, 162, 41, 253, 205,
           17, 215, 204, 182, 101, 28, 19, 166, 224, 72, 194, 30, 107, 153, 233, 150, 0,
           0, 0, 0>>>>,
       <<218, 102, 12, 67, 0, 12, 18, 209, 11, 73, 245, 160, 41, 71, 131, 205, 185, 142,
         48, 76, 33, 183, 251, 201, 1, 237, 76, 54, 41, 67, 113, 252, 218, 109, 38, 220,
         104, 136, 46, 187, 53, 107, 185, 157, 152, 71, 237, 151, 204, 81, 47, 14, 34,
         195, 85, 89, 246, 158, 213, 36, 108, 40, 201, 133>>>>,
     <<<<<<163, 90, 154, 254, 113, 138, 50, 180, 100, 4, 228, 6, 85, 23, 62, 6, 213, 98,
           47, 68, 75, 149, 15, 18, 234, 83, 75, 35, 72, 247, 143, 40>>,
         <<2, 76, 179, 236, 199, 237, 10, 208, 222, 159, 250, 45, 167, 162, 41, 253, 205,
           17, 215, 204, 182, 101, 28, 19, 166, 224, 72, 194, 30, 107, 153, 233, 150, 0,
           0, 0, 1>>>>,
       <<217, 255, 69, 111, 96, 137, 41, 246, 151, 196, 134, 78, 50, 72, 176, 235, 97,
         246, 11, 119, 8, 149, 111, 41, 7, 119, 89, 65, 1, 65, 205, 57, 72, 155, 209, 49,
         73, 110, 38, 224, 182, 182, 152, 85, 105, 90, 232, 92, 23, 3, 77, 13, 66, 211,
         78, 243, 166, 193, 105, 35, 249, 151, 222, 12>>>>,
     <<<<<<168, 190, 35, 15, 159, 241, 183, 20, 104, 176, 225, 162, 169, 72, 66, 238,
           252, 39, 116, 131, 150, 116, 9, 18, 152, 143, 101, 17, 85, 193, 167, 107>>,
         <<2, 23, 116, 181, 147, 57, 128, 135, 155, 196, 62, 84, 14, 29, 124, 103, 157,
           240, 71, 69, 40, 134, 205, 152, 10, 204, 179, 31, 42, 80, 14, 92, 162, 0, 0,
           0, 0>>>>,
       <<230, 74, 116, 116, 179, 170, 125, 129, 155, 19, 138, 245, 154, 176, 236, 249,
         99, 79, 237, 180, 247, 208, 252, 17, 0, 187, 219, 194, 226, 167, 118, 254, 113,
         64, 55, 251, 28, 97, 121, 81, 74, 44, 156, 148, 112, 173, 146, 235, 12, 109,
         207, 175, 51, 7, 112, 52, 153, 132, 15, 64, 204, 133, 56, 92>>>>>>
    \o <<<<<<<<168, 190, 35, 15, 159, 241, 183, 20, 104, 176, 225, 162, 169, 72, 66, 238,
           252, 39, 116, 131, 150, 116, 9, 18, 152, 143, 101, 17, 85, 193, 167, 107>>,
         <<2, 23, 116, 181, 147, 57, 128, 135, 155, 196, 62, 84, 14, 29, 124, 103, 157,
           240, 71, 69, 40, 134, 205, 152, 10, 204, 179, 31, 42, 80, 14, 92, 162, 0, 0,
           0, 1>>>>,
       <<36, 52, 159, 206, 243, 95, 223, 230, 0, 223, 77, 131, 201, 39, 32, 162, 100, 2,
         191, 25, 171, 78, 253, 121, 192, 238, 240, 90, 49, 10, 135, 21, 12, 105, 49, 24,
         58, 228, 36, 89, 219, 153, 178, 135, 119, 252, 214, 26, 161, 228, 2, 175, 226,
         229, 69, 199, 27, 178, 66, 12, 246, 144, 187, 149>>>>,
     <<<<<<168, 190, 35, 15, 159, 241, 183, 20, 104, 176, 225, 162, 169, 72, 66, 238,
           252, 39, 116, 131, 150, 116, 9, 18, 152, 143, 101, 17, 85, 193, 167, 107>>,
         <<2, 23, 116, 181, 147, 57, 128, 135, 155, 196, 62, 84, 14, 29, 124, 103, 157,
           240, 71, 69, 40, 134, 205, 152, 10, 204, 179, 31, 42, 80, 14, 92, 162, 0, 0,
           0, 2>>>>,
       <<102, 11, 105, 32, 26, 150, 145, 124, 57, 215, 158, 106, 135, 47, 60, 75, 41,
         164, 113, 18, 169, 6, 199, 250, 128, 7, 52, 32, 209, 240, 119, 34, 167, 59, 231,
         15, 193, 100, 2, 1, 54, 68, 97, 19, 69, 219, 156, 40, 52, 202, 88, 237, 16, 212,
         102, 168, 114, 186, 232, 159, 57, 111, 14, 169>>>>,
     <<<<<<172, 170, 80, 169, 196, 144, 17, 154, 143, 250, 93, 165, 207, 247, 124, 188,
           121, 101, 6, 251, 25, 105, 174, 39, 183, 25, 147, 122, 237, 193, 38, 190>>,
         <<0, 231, 130, 137, 105, 73, 249, 216, 137, 142, 211, 212, 153, 7, 101, 138,
           141, 207, 123, 194, 140, 178, 154, 90, 17, 175, 24, 47, 227, 85, 69, 107, 2,
           128, 0, 0, 0>>>>,
       <<254, 118, 4, 180, 90, 132, 82, 134, 231, 234, 19, 90, 159, 167, 37, 188, 238,
         166, 109, 128, 40, 173, 36, 151, 109, 252, 221, 93, 189, 51, 174, 198, 228, 106,
         243, 236, 22, 15, 74, 219, 85, 27, 143, 154, 33, 245, 254, 176, 112, 50, 165,
         224, 225, 197, 190, 72, 10, 83, 110, 17, 37, 158, 203, 11>>>>,
     <<<<<<175, 238, 72, 104, 9, 188, 23, 67, 184, 234, 176, 93, 200, 27, 65, 144, 15,
           202, 233, 166, 224, 67, 112, 23, 71, 21, 60, 88, 240, 73, 58, 124>>,
         <<3, 169, 180, 29, 245, 69, 55, 108, 14, 51, 89, 168, 213, 169, 239, 168, 130,
           122, 62, 110, 74, 230, 30, 217, 32, 171, 172, 198, 193, 110, 211, 131, 38, 0,
           0, 0, 0>>>>,
       <<130, 92, 23, 82, 88, 242, 200, 30, 133, 112, 12, 138, 56, 74, 64, 140, 158, 78,
         182, 243, 236, 150, 151, 210, 167, 101, 67, 132, 58, 186, 38, 249, 219, 202,
         233, 37, 254, 177, 145, 181, 112, 4, 166, 142, 61, 17, 231, 187, 159, 242, 179,
         186, 131, 217, 0, 178, 223, 135, 194, 63, 76, 186, 77, 152>>>>,
     <<<<<<175, 238, 72, 104, 9, 188, 23, 67, 184, 234, 176, 93, 200, 27, 65, 144, 15,
           202, 233, 166, 224, 67, 112, 23, 71, 21, 60, 88, 240, 73, 58, 124>>,
         <<3, 169, 180, 29, 245, 69, 55, 108, 14, 51, 89, 168, 213, 169, 239, 168, 130,
           122, 62, 110, 74, 230, 30, 217, 32, 171, 172, 198, 193, 110, 211, 131, 38, 0,
           0, 0, 1>>>>,
       <<139, 93, 164, 61, 125, 103, 241, 28, 120, 31, 239, 72, 175, 203, 36, 71, 44,
         124, 244, 6, 96, 246, 78, 170, 154, 13, 249, 31, 200, 70, 49, 12, 222, 238, 129,
         145, 10, 244, 197, 97, 135, 104, 37, 180, 228, 89, 28, 152, 37, 0, 190, 230,
         185, 14, 73, 151, 21, 170, 94, 114, 153, 238, 148, 252>>>>,
     <<<<<<175, 238, 72, 104, 9, 188, 23, 67, 184, 234, 176, 93, 200, 27, 65, 144, 15,
           202, 233, 166, 224, 67, 112, 23, 71, 21, 60, 88, 240, 73, 58, 124>>,
         <<3, 169, 180, 29, 245, 69, 55, 108, 14, 51, 89, 168, 213, 169, 239, 168, 130,
           122, 62, 110, 74, 230, 30, 217, 32, 171, 172, 198, 193, 110, 211, 131, 38, 0,
           0, 0, 2>>>>,
       <<85, 49, 136, 66, 100, 143, 126, 147, 226, 27, 204, 73, 9, 222, 91, 125, 37, 126,
         159, 98, 95, 209, 122, 249, 155, 143, 162, 22, 173, 202, 161, 7, 26, 251, 238,
         225, 17, 225, 171, 153, 15, 28, 24, 248, 242, 173, 107, 70, 163, 209, 36, 132,
         131, 163, 64, 98, 47, 22, 139, 191, 249, 147, 81, 48>>>>,
     <<<<<<175, 8, 148, 220, 95, 45, 91, 237, 13, 200, 91, 47, 210, 5, 58, 152, 87, 87,
           101, 193, 68, 228, 230, 65, 38, 238, 16, 9, 179, 136, 96, 178>>,
         <<0, 167, 102, 31, 164, 151, 246, 122, 125, 90, 23, 242, 153, 231, 102, 53, 225,
           109, 105, 172, 168, 184, 154, 200, 2, 44, 171, 173, 71, 105, 15, 71, 246, 128,
           0, 0, 0>>>>,
       <<86, 254, 143, 221, 195, 100, 253, 215, 242, 27, 175, 241, 59, 162, 41, 223, 21,
         140, 229, 11, 14, 120, 4, 27, 33, 187, 51, 235, 192, 110, 96, 132, 61, 164, 188,
         25, 10, 38, 128, 17, 29, 49, 250, 223, 220, 144, 95, 42, 127, 108, 231, 124,
         111, 16, 153, 25, 17, 111, 37, 61, 67, 68, 82, 25>>>>,
     <<<<<<180, 225, 199, 0, 149, 224, 250, 125, 217, 103, 39, 239, 74, 205, 179, 201,
           129, 199, 174, 191, 181, 2, 171, 232, 7, 231, 165, 31, 23, 36, 66, 77>>,
         <<0, 203, 180, 229, 198, 27, 79, 207, 140, 27, 71, 245, 0, 156, 70, 92, 66, 232,
           127, 228, 51, 202, 40, 252, 44, 134, 105, 167, 253, 106, 172, 0, 161, 128, 0,
           0, 0>>>>,
       <<94, 187, 100, 74, 132, 52, 192, 229, 139, 242, 1, 77, 216, 119, 194, 178, 103,
         130, 238, 130, 94, 96, 18, 169, 43, 100, 35, 226, 86, 155, 108, 109, 29, 70,
         218, 228, 185, 144, 139, 185, 135, 158, 165, 211, 169, 91, 62, 169, 52, 185,
         207, 94, 112, 52, 103, 15, 142, 97, 1, 62, 221, 40, 242, 73>>>>,
     <<<<<<185, 202, 127, 194, 255, 129, 49, 120, 247, 192, 103, 185, 56, 63, 255, 61,
           114, 133, 144, 8, 235, 235, 151, 185, 143, 43, 43, 211, 186, 207, 55, 178>>,
         <<2, 250, 156, 178, 124, 49, 238, 34, 133, 61, 150, 162, 233, 232, 144, 236,
           255, 156, 196, 237, 255, 189, 164, 197, 191, 151, 134, 42, 102, 91, 64, 239,
           171, 0, 0, 0, 0>>>>,
       <<208, 26, 32, 158, 4, 222, 123, 49, 160, 74, 250, 203, 60, 219, 198, 5, 165, 1,
         37, 122, 111, 70, 66, 112, 23, 120, 161, 223, 52, 195, 230, 6, 6, 8, 14, 33, 33,
         144, 19, 102, 59, 53, 11, 4, 137, 225, 239, 14, 102, 71, 112, 79, 232, 115, 33,
         195, 208, 61, 234, 249, 69, 136, 32, 183>>>>,
     <<<<<<185, 202, 127, 194, 255, 129, 49, 120, 247, 192, 103, 185, 56, 63, 255, 61,
           114, 133, 144, 8, 235, 235, 151, 185, 143, 43, 43, 211, 186, 207, 55, 178>>,
         <<2, 250, 156, 178, 124, 49, 238, 34, 133, 61, 150, 162, 233, 232, 144, 236,
           255, 156, 196, 237, 255, 189, 164, 197, 191, 151, 134, 42, 102, 91, 64, 239,
           171, 0, 0, 0, 1>>>>,
       <<204, 12, 67, 70, 247, 108, 121, 157, 194, 65, 33, 147, 21, 33, 208, 171, 136,
         156, 162, 83, 89, 222, 218, 105, 9, 251, 226, 181, 87, 27, 147, 46, 247, 18, 26,
         238, 126, 52, 203, 177, 64, 224, 245, 46, 46, 71, 203, 62, 75, 56, 130, 170,
         206, 153, 141, 6, 49, 8, 38, 42, 84, 82, 210, 15>>>>,
     <<<<<<185, 202, 127, 194, 255, 129, 49, 120, 247, 192, 103, 185, 56, 63, 255, 61,
           114, 133, 144, 8, 235, 235, 151, 185, 143, 43, 43, 211, 186, 207, 55, 178>>,
         <<2, 250, 156, 178, 124, 49, 238, 34, 133, 61, 150, 162, 233, 232, 144, 236,
           255, 156, 196, 237, 255, 189, 164, 197, 191, 151, 134, 42, 102, 91, 64, 239,
           171, 0, 0, 0, 2>>>>,
       <<29, 162, 48, 33, 67, 55, 169, 109, 120, 189, 226, 29, 199, 73, 224, 86, 243,
         195, 71, 199, 78, 226, 202, 122, 235, 255, 69, 209, 226, 133, 130, 204, 82, 215,
         176, 15, 192, 115, 87, 230, 60, 35, 238, 66, 142, 215, 225, 82, 217, 152, 146,
         173, 201, 118, 48, 178, 80, 237, 159, 4, 213, 59, 100, 241>>>>,
     <<<<<<188, 232, 13, 213, 128, 121, 44, 209, 138, 245, 66, 121, 14, 86, 170, 129, 49,
           120, 220, 40, 100, 75, 181, 240, 61, 189, 68, 200, 95, 45, 46, 122>>,
         <<3, 134, 184, 101, 181, 43, 117, 61, 10, 132, 208, 155, 194, 0, 99, 250, 181,
           216, 69, 62, 195, 60, 33, 93, 64, 25, 165, 128, 28, 156, 100, 56, 185, 0, 0,
           0, 0>>>>,
       <<94, 198, 108, 213, 18, 192, 166, 127, 233, 115, 203, 193, 64, 18, 114, 112, 166,
         116, 146, 135, 60, 191, 135, 217, 230, 1, 103, 94, 197, 168, 212, 187, 33, 57,
         9, 112, 128, 88, 224, 236, 74, 153, 193, 157, 142, 4, 28, 1, 74, 230, 199, 220,
         33, 210, 161, 250, 200, 103, 114, 223, 124, 163, 87, 166>>>>,
     <<<<<<188, 232, 13, 213, 128, 121, 44, 209, 138, 245, 66, 121, 14, 86, 170, 129, 49,
           120, 220, 40, 100, 75, 181, 240, 61, 189, 68, 200, 95, 45, 46, 122>>,
         <<3, 134, 184, 101, 181, 43, 117, 61, 10, 132, 208, 155, 194, 0, 99, 250, 181,
           216, 69, 62, 195, 60, 33, 93, 64, 25, 165, 128, 28, 156, 100, 56, 185, 0, 0,
           0, 1>>>>,
       <<216, 83, 156, 46, 97, 11, 177, 155, 155, 211, 57, 167, 236, 247, 153, 124, 185,
         37, 1, 6, 27, 19, 98, 166, 197, 53, 219, 226, 214, 185, 220, 150, 3, 90, 7, 229,
         93, 18, 60, 135, 46, 39, 26, 112, 83, 30, 31, 48, 64, 42, 162, 34, 30, 251, 29,
         53, 65, 144, 224, 194, 90, 255, 16, 206>>>>,
     <<<<<<188, 232, 13, 213, 128, 121, 44, 209, 138, 245, 66, 121, 14, 86, 170, 129, 49,
           120, 220, 40, 100, 75, 181, 240, 61, 189, 68, 200, 95, 45, 46, 122>>,
         <<3, 134, 184, 101, 181, 43, 117, 61, 10, 132, 208, 155, 194, 0, 99, 250, 181,
           216, 69, 62, 195, 60, 33, 93, 64, 25, 165, 128, 28, 156, 100, 56, 185, 0, 0,
           0, 2>>>>,
       <<75, 229, 137, 251, 133, 229, 170, 130, 234, 79, 211, 11, 114, 220, 86, 162, 131,
         220, 236, 140, 146, 19, 103, 65, 235, 214, 220, 187, 48, 125, 91, 66, 125, 104,
         46, 198, 114, 191, 40, 205, 180, 64, 120, 43, 111, 75, 21, 162, 167, 78, 212,
         232, 140, 137, 21, 83, 229, 213, 74, 214, 98, 10, 253, 249>>>>,
     <<<<<<189, 115, 91, 236, 57, 50, 29, 117, 43, 141, 111, 171, 48, 137, 45, 83, 228,
           43, 117, 157, 49, 116, 180, 6, 117, 210, 142, 30, 65, 222, 122, 120>>,
         <<0, 39, 65, 149, 185, 225, 84, 192, 142, 18, 149, 68, 79, 177, 247, 74, 109,
           123, 195, 92, 127, 58, 176, 24, 8, 229, 17, 27, 185, 187, 212, 104, 7, 128, 0,
           0, 0>>>>,
       <<128, 138, 215, 174, 150, 29, 89, 177, 140, 187, 139, 179, 219, 181, 186, 74, 17,
         209, 31, 114, 233, 149, 129, 147, 243, 86, 216, 223, 52, 29, 35, 70, 43, 78,
         217, 122, 86, 34, 100, 191, 173, 95, 182, 112, 60, 206, 160, 107, 49, 106, 253,
         97, 198, 205, 241, 73, 69, 75, 73, 113, 148, 94, 34, 51>>>>,
     <<<<<<193, 88, 14, 16, 128, 93, 148, 197, 164, 90, 24, 40, 77, 108, 22, 0, 24, 105,
           9, 40, 187, 170, 14, 163, 48, 134, 213, 59, 53, 9, 199, 72>>,
         <<0, 246, 139, 58, 226, 205, 202, 96, 145, 58, 40, 129, 174, 199, 41, 35, 32,
           129, 226, 67, 191, 119, 190, 93, 5, 49, 228, 210, 150, 226, 96, 119, 223, 128,
           0, 0, 0>>>>,
       <<165, 80, 189, 12, 32, 96, 161, 191, 131, 196, 152, 95, 9, 217, 205, 150, 47, 34,
         202, 10, 30, 74, 113, 134, 64, 227, 105, 15, 202, 103, 80, 208, 163, 90, 154,
         254, 113, 138, 50, 180, 100, 4, 228, 6, 85, 23, 62, 6, 213, 98, 47, 68, 75, 149,
         15, 18, 234, 83, 75, 35, 72, 247, 143, 40>>>>>>
    \o <<<<<<<<196, 209, 18, 106, 78, 235, 198, 137, 119, 235, 181, 47, 191, 50, 245, 184,
           246, 36, 44, 102, 177, 78, 58, 199, 139, 136, 31, 127, 124, 234, 59, 81>>,
         <<2, 213, 127, 153, 50, 53, 182, 35, 78, 116, 108, 100, 184, 153, 185, 29, 162,
           36, 211, 243, 110, 235, 154, 169, 191, 209, 35, 51, 156, 40, 116, 240, 173, 0,
           0, 0, 0>>>>,
       <<104, 85, 177, 26, 189, 64, 172, 76, 48, 68, 153, 157, 192, 72, 209, 168, 13,
         185, 128, 95, 61, 81, 70, 250, 65, 96, 115, 138, 77, 57, 242, 24, 46, 156, 172,
         162, 249, 133, 15, 44, 19, 32, 121, 208, 48, 132, 68, 174, 35, 253, 102, 104,
         211, 244, 57, 241, 6, 223, 124, 144, 85, 141, 31, 176>>>>,
     <<<<<<196, 209, 18, 106, 78, 235, 198, 137, 119, 235, 181, 47, 191, 50, 245, 184,
           246, 36, 44, 102, 177, 78, 58, 199, 139, 136, 31, 127, 124, 234, 59, 81>>,
         <<2, 213, 127, 153, 50, 53, 182, 35, 78, 116, 108, 100, 184, 153, 185, 29, 162,
           36, 211, 243, 110, 235, 154, 169, 191, 209, 35, 51, 156, 40, 116, 240, 173, 0,
           0, 0, 1>>>>,
       <<238, 235, 242, 140, 8, 82, 90, 41, 19, 197, 228, 93, 245, 30, 154, 18, 81, 154,
         9, 92, 207, 77, 249, 11, 166, 86, 46, 13, 180, 174, 60, 99, 133, 45, 213, 221,
         225, 175, 83, 222, 102, 236, 252, 230, 97, 56, 217, 240, 17, 200, 67, 158, 247,
         155, 64, 31, 221, 15, 37, 113, 138, 73, 93, 15>>>>,
     <<<<<<196, 209, 18, 106, 78, 235, 198, 137, 119, 235, 181, 47, 191, 50, 245, 184,
           246, 36, 44, 102, 177, 78, 58, 199, 139, 136, 31, 127, 124, 234, 59, 81>>,
         <<2, 213, 127, 153, 50, 53, 182, 35, 78, 116, 108, 100, 184, 153, 185, 29, 162,
           36, 211, 243, 110, 235, 154, 169, 191, 209, 35, 51, 156, 40, 116, 240, 173, 0,
           0, 0, 2>>>>,
       <<110, 68, 35, 136, 104, 88, 125, 245, 50, 37, 103, 239, 97, 46, 12, 61, 4, 28,
         23, 228, 102, 119, 108, 242, 156, 41, 183, 174, 189, 199, 178, 57, 61, 29, 244,
         197, 242, 54, 188, 156, 201, 253, 134, 185, 142, 73, 224, 146, 199, 253, 123,
         85, 34, 72, 100, 200, 11, 155, 235, 184, 187, 124, 67, 32>>>>,
     <<<<<<200, 246, 15, 53, 117, 48, 106, 191, 143, 189, 211, 26, 165, 109, 45, 247, 88,
           97, 182, 68, 114, 24, 59, 85, 90, 126, 154, 188, 191, 193, 54, 115>>,
         <<3, 221, 74, 78, 103, 146, 107, 123, 63, 248, 199, 65, 54, 204, 32, 30, 237,
           74, 185, 143, 123, 106, 244, 217, 163, 7, 146, 166, 166, 220, 247, 41, 14, 0,
           0, 0, 0>>>>,
       <<45, 131, 119, 231, 62, 150, 59, 120, 16, 155, 76, 72, 62, 227, 27, 7, 12, 184,
         4, 32, 183, 176, 11, 87, 196, 6, 8, 204, 144, 75, 225, 136, 169, 101, 101, 47,
         45, 75, 91, 215, 133, 39, 68, 235, 169, 251, 89, 204, 253, 21, 119, 114, 132,
         56, 31, 28, 1, 175, 84, 10, 131, 248, 4, 113>>>>,
     <<<<<<200, 246, 15, 53, 117, 48, 106, 191, 143, 189, 211, 26, 165, 109, 45, 247, 88,
           97, 182, 68, 114, 24, 59, 85, 90, 126, 154, 188, 191, 193, 54, 115>>,
         <<3, 221, 74, 78, 103, 146, 107, 123, 63, 248, 199, 65, 54, 204, 32, 30, 237,
           74, 185, 143, 123, 106, 244, 217, 163, 7, 146, 166, 166, 220, 247, 41, 14, 0,
           0, 0, 1>>>>,
       <<233, 205, 229, 123, 38, 70, 173, 229, 218, 44, 21, 155, 102, 89, 92, 1, 2, 194,
         110, 131, 228, 230, 93, 237, 243, 113, 120, 56, 35, 82, 45, 92, 22, 91, 127,
         208, 79, 239, 2, 156, 224, 170, 187, 15, 170, 63, 37, 177, 255, 228, 89, 157,
         91, 124, 105, 50, 210, 138, 230, 177, 11, 244, 182, 154>>>>,
     <<<<<<200, 246, 15, 53, 117, 48, 106, 191, 143, 189, 211, 26, 165, 109, 45, 247, 88,
           97, 182, 68, 114, 24, 59, 85, 90, 126, 154, 188, 191, 193, 54, 115>>,
         <<3, 221, 74, 78, 103, 146, 107, 123, 63, 248, 199, 65, 54, 204, 32, 30, 237,
           74, 185, 143, 123, 106, 244, 217, 163, 7, 146, 166, 166, 220, 247, 41, 14, 0,
           0, 0, 2>>>>,
       <<221, 14, 242, 20, 151, 171, 66, 1, 14, 18, 220, 120, 186, 254, 227, 237, 217,
         214, 85, 74, 116, 42, 65, 161, 231, 92, 155, 67, 69, 181, 41, 90, 226, 194, 210,
         205, 40, 208, 197, 192, 209, 145, 103, 69, 142, 87, 36, 196, 107, 140, 116, 180,
         254, 0, 22, 185, 239, 123, 118, 52, 3, 236, 216, 234>>>>,
     <<<<<<202, 106, 146, 118, 241, 53, 232, 54, 162, 195, 34, 47, 73, 1, 204, 15, 50,
           58, 220, 187, 57, 247, 70, 239, 60, 26, 178, 183, 70, 2, 9, 224>>,
         <<0, 243, 106, 22, 105, 34, 81, 78, 46, 60, 127, 9, 225, 57, 176, 174, 255, 3,
           156, 191, 2, 6, 6, 103, 11, 39, 85, 79, 127, 225, 162, 77, 156, 128, 0, 0, 0>>>>,
       <<11, 29, 197, 93, 176, 249, 47, 252, 141, 158, 104, 155, 255, 114, 59, 248, 190,
         125, 192, 122, 143, 181, 33, 77, 182, 46, 218, 40, 196, 249, 199, 88, 108, 45,
         7, 15, 157, 39, 240, 245, 199, 144, 15, 22, 75, 64, 55, 224, 147, 1, 130, 107,
         184, 116, 32, 47, 47, 28, 128, 149, 65, 61, 54, 187>>>>,
     <<<<<<202, 106, 146, 118, 241, 53, 232, 54, 162, 195, 34, 47, 73, 1, 204, 15, 50,
           58, 220, 187, 57, 247, 70, 239, 60, 26, 178, 183, 70, 2, 9, 224>>,
         <<3, 192, 152, 166, 116, 57, 39, 85, 71, 18, 241, 203, 194, 64, 239, 115, 25,
           13, 177, 183, 99, 59, 8, 213, 79, 248, 83, 137, 148, 57, 193, 2, 181, 0, 0, 0,
           0>>>>,
       <<59, 109, 8, 98, 253, 202, 64, 216, 63, 96, 118, 242, 12, 149, 66, 111, 178, 138,
         200, 21, 67, 209, 165, 200, 88, 137, 170, 107, 120, 87, 107, 67, 87, 156, 137,
         141, 236, 150, 90, 120, 73, 58, 254, 133, 57, 72, 192, 50, 254, 104, 240, 1, 37,
         148, 205, 207, 4, 78, 176, 217, 132, 219, 143, 178>>>>,
     <<<<<<204, 26, 43, 75, 16, 210, 178, 185, 12, 50, 155, 149, 5, 149, 207, 70, 75, 9,
           152, 129, 31, 10, 203, 153, 78, 130, 87, 161, 150, 222, 147, 19>>,
         <<2, 99, 21, 37, 198, 49, 177, 50, 62, 96, 62, 7, 115, 180, 49, 38, 207, 111,
           62, 206, 246, 22, 254, 95, 255, 90, 41, 155, 55, 175, 224, 58, 134, 0, 0, 0,
           0>>>>,
       <<101, 27, 175, 108, 140, 81, 177, 100, 22, 1, 30, 26, 64, 58, 129, 186, 45, 211,
         124, 22, 29, 144, 27, 197, 36, 202, 220, 201, 147, 234, 91, 233, 1, 187, 238,
         247, 148, 75, 153, 29, 204, 241, 40, 216, 171, 61, 206, 112, 167, 15, 205, 2,
         145, 57, 56, 112, 139, 248, 204, 101, 141, 113, 163, 157>>>>,
     <<<<<<204, 26, 43, 75, 16, 210, 178, 185, 12, 50, 155, 149, 5, 149, 207, 70, 75, 9,
           152, 129, 31, 10, 203, 153, 78, 130, 87, 161, 150, 222, 147, 19>>,
         <<2, 99, 21, 37, 198, 49, 177, 50, 62, 96, 62, 7, 115, 180, 49, 38, 207, 111,
           62, 206, 246, 22, 254, 95, 255, 90, 41, 155, 55, 175, 224, 58, 134, 0, 0, 0,
           1>>>>,
       <<159, 250, 84, 11, 99, 118, 8, 123, 142, 193, 141, 250, 28, 71, 102, 230, 133,
         113, 75, 119, 134, 87, 91, 78, 147, 192, 179, 143, 7, 62, 14, 120, 182, 165, 5,
         229, 229, 155, 75, 170, 49, 204, 102, 10, 13, 8, 43, 2, 237, 29, 38, 120, 50,
         166, 78, 187, 80, 114, 173, 143, 35, 59, 70, 66>>>>,
     <<<<<<204, 26, 43, 75, 16, 210, 178, 185, 12, 50, 155, 149, 5, 149, 207, 70, 75, 9,
           152, 129, 31, 10, 203, 153, 78, 130, 87, 161, 150, 222, 147, 19>>,
         <<2, 99, 21, 37, 198, 49, 177, 50, 62, 96, 62, 7, 115, 180, 49, 38, 207, 111,
           62, 206, 246, 22, 254, 95, 255, 90, 41, 155, 55, 175, 224, 58, 134, 0, 0, 0,
           2>>>>,
       <<108, 107, 46, 169, 88, 192, 11, 175, 71, 73, 158, 191, 133, 101, 219, 106, 150,
         131, 236, 20, 156, 135, 189, 117, 255, 218, 66, 66, 12, 56, 80, 129, 66, 47,
         231, 89, 134, 139, 115, 252, 162, 14, 208, 114, 127, 189, 227, 88, 144, 21, 244,
         191, 85, 118, 249, 158, 12, 122, 95, 200, 134, 96, 248, 139>>>>,
     <<<<<<208, 74, 115, 64, 195, 125, 120, 91, 204, 127, 207, 98, 96, 154, 51, 58, 31,
           44, 207, 100, 228, 18, 219, 173, 56, 186, 144, 213, 36, 76, 33, 196>>,
         <<0, 128, 210, 47, 6, 196, 193, 166, 125, 110, 59, 127, 11, 208, 17, 169, 94,
           105, 99, 40, 180, 139, 87, 150, 243, 4, 49, 12, 64, 134, 238, 42, 128, 128, 0,
           0, 0>>>>,
       <<242, 123, 3, 58, 217, 240, 245, 120, 184, 69, 35, 178, 139, 59, 217, 122, 75,
         65, 200, 141, 137, 151, 249, 54, 17, 176, 131, 0, 120, 180, 203, 4, 1, 73, 0,
         92, 27, 202, 139, 137, 72, 19, 134, 122, 209, 39, 244, 151, 70, 198, 191, 92,
         73, 143, 48, 6, 131, 164, 89, 150, 24, 57, 195, 235>>>>,
     <<<<<<208, 74, 115, 64, 195, 125, 120, 91, 204, 127, 207, 98, 96, 154, 51, 58, 31,
           44, 207, 100, 228, 18, 219, 173, 56, 186, 144, 213, 36, 76, 33, 196>>,
         <<2, 189, 63, 92, 148, 124, 73, 190, 164, 254, 202, 126, 215, 84, 98, 113, 53,
           139, 88, 51, 111, 249, 179, 21, 61, 72, 46, 42, 228, 136, 39, 223, 163, 0, 0,
           0, 0>>>>,
       <<139, 4, 162, 225, 51, 9, 127, 251, 180, 32, 229, 7, 110, 140, 125, 111, 122, 38,
         12, 228, 49, 80, 100, 220, 9, 44, 102, 34, 97, 220, 97, 51, 5, 7, 221, 249, 172,
         69, 99, 231, 73, 31, 220, 129, 158, 148, 38, 236, 3, 159, 30, 146, 97, 140, 217,
         169, 162, 219, 75, 48, 70, 251, 41, 20>>>>,
     <<<<<<213, 91, 225, 180, 145, 66, 207, 211, 125, 202, 114, 58, 70, 92, 131, 216, 90,
           46, 147, 156, 82, 59, 171, 103, 183, 241, 49, 229, 138, 116, 43, 59>>,
         <<0, 78, 170, 209, 82, 195, 11, 80, 146, 101, 33, 241, 206, 26, 204, 189, 218,
           173, 240, 60, 14, 158, 23, 203, 103, 43, 230, 182, 209, 163, 214, 149, 114,
           128, 0, 0, 0>>>>,
       <<236, 29, 129, 95, 176, 69, 10, 102, 217, 87, 4, 95, 130, 78, 187, 58, 177, 208,
         8, 187, 227, 205, 204, 14, 197, 92, 233, 189, 55, 99, 220, 95, 144, 140, 127,
         110, 95, 183, 9, 41, 240, 242, 243, 142, 143, 71, 115, 197, 135, 210, 241, 68,
         84, 225, 65, 25, 96, 121, 188, 109, 2, 231, 142, 186>>>>,
     <<<<<<214, 157, 228, 15, 39, 94, 185, 178, 233, 139, 3, 144, 152, 222, 210, 243,
           233, 78, 98, 250, 160, 197, 171, 232, 219, 204, 204, 63, 152, 244, 156, 125>>,
         <<3, 152, 156, 221, 63, 53, 32, 103, 97, 71, 104, 221, 134, 124, 136, 204, 134,
           3, 130, 120, 155, 117, 3, 87, 125, 145, 218, 61, 28, 103, 198, 215, 50, 0, 0,
           0, 1>>>>,
       <<228, 218, 172, 119, 154, 37, 222, 66, 52, 239, 59, 198, 206, 17, 98, 42, 70, 82,
         149, 119, 198, 125, 16, 151, 34, 235, 236, 22, 142, 196, 249, 40, 231, 169, 51,
         229, 114, 226, 29, 126, 67, 32, 100, 190, 181, 61, 103, 99, 82, 11, 126, 134,
         73, 137, 0, 186, 9, 185, 108, 163, 244, 200, 152, 190>>>>,
     <<<<<<218, 109, 38, 220, 104, 136, 46, 187, 53, 107, 185, 157, 152, 71, 237, 151,
           204, 81, 47, 14, 34, 195, 85, 89, 246, 158, 213, 36, 108, 40, 201, 133>>,
         <<3, 47, 52, 99, 161, 248, 205, 238, 9, 100, 216, 50, 159, 161, 167, 237, 61, 0,
           154, 238, 92, 241, 33, 155, 21, 109, 200, 209, 213, 88, 158, 65, 55, 0, 0, 0,
           0>>>>,
       <<228, 153, 113, 95, 184, 65, 3, 69, 242, 206, 75, 216, 237, 154, 193, 1, 51, 51,
         54, 43, 4, 107, 56, 131, 237, 49, 58, 140, 16, 172, 109, 237, 203, 143, 14, 175,
         73, 79, 232, 114, 204, 233, 176, 59, 131, 147, 104, 182, 224, 172, 151, 30, 81,
         35, 78, 3, 65, 97, 130, 139, 170, 114, 215, 74>>>>>>
    \o <<<<<<<<218, 109, 38, 220, 104, 136, 46, 187, 53, 107, 185, 157, 152, 71, 237, 151,
           204, 81, 47, 14, 34, 195, 85, 89, 246, 158, 213, 36, 108, 40, 201, 133>>,
         <<3, 47, 52, 99, 161, 248, 205, 238, 9, 100, 216, 50, 159, 161, 167, 237, 61, 0,
           154, 238, 92, 241, 33, 155, 21, 109, 200, 209, 213, 88, 158, 65, 55, 0, 0, 0,
           1>>>>,
       <<173, 153, 168, 112, 53, 189, 37, 183, 28, 62, 74, 254, 97, 216, 210, 2, 60, 40,
         250, 152, 80, 90, 65, 44, 154, 246, 51, 30, 189, 113, 145, 5, 207, 129, 121,
         176, 143, 52, 179, 66, 78, 47, 37, 181, 197, 155, 56, 123, 210, 13, 114, 85,
         112, 160, 93, 155, 103, 129, 163, 53, 39, 243, 42, 74>>>>,
     <<<<<<218, 109, 38, 220, 104, 136, 46, 187, 53, 107, 185, 157, 152, 71, 237, 151,
           204, 81, 47, 14, 34, 195, 85, 89, 246, 158, 213, 36, 108, 40, 201, 133>>,
         <<3, 47, 52, 99, 161, 248, 205, 238, 9, 100, 216, 50, 159, 161, 167, 237, 61, 0,
           154, 238, 92, 241, 33, 155, 21, 109, 200, 209, 213, 88, 158, 65, 55, 0, 0, 0,
           2>>>>,
       <<108, 148, 241, 198, 144, 204, 16, 73, 36, 236, 211, 90, 186, 156, 43, 233, 72,
         31, 186, 189, 26, 174, 67, 231, 231, 82, 139, 8, 133, 67, 99, 75, 17, 151, 167,
         100, 204, 13, 157, 153, 146, 35, 117, 239, 124, 253, 229, 38, 26, 7, 47, 124,
         66, 176, 22, 165, 170, 221, 240, 125, 246, 33, 227, 93>>>>,
     <<<<<<219, 216, 160, 69, 181, 196, 56, 249, 51, 208, 31, 168, 167, 177, 33, 23, 231,
           251, 80, 137, 13, 220, 127, 68, 222, 117, 254, 222, 11, 209, 243, 2>>,
         <<2, 2, 143, 54, 93, 70, 41, 79, 154, 101, 180, 34, 59, 58, 195, 144, 246, 105,
           239, 252, 26, 243, 96, 143, 235, 147, 165, 208, 187, 107, 222, 82, 193, 0, 0,
           0, 0>>>>,
       <<84, 15, 84, 66, 65, 192, 105, 119, 173, 73, 234, 22, 167, 223, 37, 180, 77, 168,
         115, 134, 215, 108, 74, 46, 66, 137, 100, 22, 44, 41, 47, 30, 75, 63, 200, 10,
         166, 247, 142, 62, 141, 75, 58, 52, 145, 179, 55, 101, 123, 87, 193, 32, 220,
         48, 191, 152, 70, 201, 215, 40, 4, 224, 228, 204>>>>,
     <<<<<<219, 216, 160, 69, 181, 196, 56, 249, 51, 208, 31, 168, 167, 177, 33, 23, 231,
           251, 80, 137, 13, 220, 127, 68, 222, 117, 254, 222, 11, 209, 243, 2>>,
         <<2, 2, 143, 54, 93, 70, 41, 79, 154, 101, 180, 34, 59, 58, 195, 144, 246, 105,
           239, 252, 26, 243, 96, 143, 235, 147, 165, 208, 187, 107, 222, 82, 193, 0, 0,
           0, 1>>>>,
       <<28, 182, 162, 247, 225, 46, 45, 242, 73, 248, 244, 71, 166, 31, 187, 146, 132,
         139, 79, 175, 170, 65, 211, 128, 96, 92, 170, 11, 171, 76, 127, 225, 248, 117,
         202, 123, 199, 61, 232, 135, 131, 52, 152, 126, 245, 166, 23, 50, 27, 147, 69,
         243, 120, 242, 8, 250, 220, 109, 146, 22, 150, 186, 201, 92>>>>,
     <<<<<<224, 78, 17, 137, 69, 12, 50, 58, 23, 211, 169, 67, 71, 233, 80, 138, 212,
           232, 225, 105, 200, 73, 149, 140, 56, 61, 236, 73, 164, 140, 128, 145>>,
         <<2, 159, 197, 100, 224, 179, 19, 146, 190, 17, 117, 10, 193, 45, 56, 161, 250,
           166, 248, 198, 64, 247, 3, 36, 126, 125, 187, 242, 149, 178, 21, 132, 126, 0,
           0, 0, 0>>>>,
       <<198, 203, 121, 100, 2, 135, 165, 126, 148, 240, 246, 20, 68, 54, 48, 221, 140,
         66, 220, 71, 141, 207, 161, 229, 187, 14, 167, 101, 89, 167, 98, 26, 37, 212,
         151, 122, 223, 225, 114, 33, 140, 33, 175, 72, 196, 147, 88, 237, 204, 202, 24,
         224, 251, 21, 193, 87, 16, 52, 77, 244, 59, 91, 36, 127>>>>,
     <<<<<<224, 78, 17, 137, 69, 12, 50, 58, 23, 211, 169, 67, 71, 233, 80, 138, 212,
           232, 225, 105, 200, 73, 149, 140, 56, 61, 236, 73, 164, 140, 128, 145>>,
         <<2, 159, 197, 100, 224, 179, 19, 146, 190, 17, 117, 10, 193, 45, 56, 161, 250,
           166, 248, 198, 64, 247, 3, 36, 126, 125, 187, 242, 149, 178, 21, 132, 126, 0,
           0, 0, 1>>>>,
       <<160, 51, 142, 50, 111, 71, 137, 144, 221, 70, 16, 90, 157, 33, 221, 29, 101,
         202, 178, 189, 234, 232, 174, 180, 128, 131, 223, 179, 239, 213, 50, 79, 211,
         225, 130, 168, 146, 211, 71, 7, 156, 231, 36, 208, 147, 221, 86, 105, 151, 215,
         70, 136, 195, 32, 151, 224, 204, 235, 29, 8, 237, 182, 179, 62>>>>,
     <<<<<<224, 78, 17, 137, 69, 12, 50, 58, 23, 211, 169, 67, 71, 233, 80, 138, 212,
           232, 225, 105, 200, 73, 149, 140, 56, 61, 236, 73, 164, 140, 128, 145>>,
         <<2, 159, 197, 100, 224, 179, 19, 146, 190, 17, 117, 10, 193, 45, 56, 161, 250,
           166, 248, 198, 64, 247, 3, 36, 126, 125, 187, 242, 149, 178, 21, 132, 126, 0,
           0, 0, 2>>>>,
       <<211, 195, 48, 53, 9, 156, 130, 122, 220, 246, 48, 243, 22, 67, 100, 165, 140,
         14, 239, 90, 250, 174, 101, 114, 214, 77, 193, 143, 14, 74, 89, 251, 71, 3, 235,
         219, 173, 97, 145, 157, 200, 44, 187, 224, 133, 195, 34, 253, 76, 166, 130, 233,
         145, 212, 136, 179, 96, 221, 237, 211, 153, 89, 93, 132>>>>,
     <<<<<<227, 187, 133, 18, 218, 176, 177, 115, 44, 219, 154, 148, 244, 42, 77, 5, 242,
           254, 205, 90, 111, 31, 41, 104, 57, 11, 104, 182, 52, 6, 222, 253>>,
         <<2, 47, 173, 31, 106, 179, 96, 103, 108, 18, 57, 158, 13, 155, 217, 220, 116,
           66, 187, 167, 210, 2, 0, 130, 132, 32, 66, 69, 40, 145, 115, 149, 20, 0, 0, 0,
           0>>>>,
       <<101, 253, 212, 180, 198, 129, 115, 45, 213, 170, 124, 220, 254, 150, 182, 129,
         114, 88, 183, 49, 4, 204, 162, 221, 120, 63, 109, 238, 196, 47, 69, 0, 162, 135,
         44, 88, 68, 35, 60, 74, 112, 123, 223, 119, 96, 176, 27, 97, 7, 116, 53, 210,
         183, 115, 37, 193, 143, 170, 70, 167, 104, 84, 197, 14>>>>,
     <<<<<<227, 187, 133, 18, 218, 176, 177, 115, 44, 219, 154, 148, 244, 42, 77, 5, 242,
           254, 205, 90, 111, 31, 41, 104, 57, 11, 104, 182, 52, 6, 222, 253>>,
         <<2, 47, 173, 31, 106, 179, 96, 103, 108, 18, 57, 158, 13, 155, 217, 220, 116,
           66, 187, 167, 210, 2, 0, 130, 132, 32, 66, 69, 40, 145, 115, 149, 20, 0, 0, 0,
           1>>>>,
       <<207, 207, 63, 58, 188, 158, 177, 189, 1, 167, 49, 200, 57, 87, 14, 188, 45, 92,
         144, 127, 85, 204, 244, 131, 232, 26, 84, 26, 79, 230, 137, 79, 24, 216, 71, 70,
         202, 27, 146, 18, 198, 234, 164, 205, 108, 83, 121, 85, 31, 101, 233, 130, 62,
         60, 207, 195, 246, 233, 63, 111, 103, 178, 102, 209>>>>,
     <<<<<<228, 106, 243, 236, 22, 15, 74, 219, 85, 27, 143, 154, 33, 245, 254, 176, 112,
           50, 165, 224, 225, 197, 190, 72, 10, 83, 110, 17, 37, 158, 203, 11>>,
         <<3, 24, 150, 105, 58, 81, 22, 220, 130, 202, 188, 24, 156, 87, 123, 210, 176,
           224, 26, 255, 176, 190, 164, 254, 224, 5, 202, 242, 221, 73, 152, 181, 65, 0,
           0, 0, 0>>>>,
       <<42, 53, 10, 77, 152, 130, 214, 160, 12, 174, 164, 178, 15, 79, 241, 14, 237,
         186, 141, 159, 162, 239, 169, 162, 42, 207, 49, 151, 169, 198, 211, 74, 196,
         209, 18, 106, 78, 235, 198, 137, 119, 235, 181, 47, 191, 50, 245, 184, 246, 36,
         44, 102, 177, 78, 58, 199, 139, 136, 31, 127, 124, 234, 59, 81>>>>,
     <<<<<<228, 106, 243, 236, 22, 15, 74, 219, 85, 27, 143, 154, 33, 245, 254, 176, 112,
           50, 165, 224, 225, 197, 190, 72, 10, 83, 110, 17, 37, 158, 203, 11>>,
         <<3, 24, 150, 105, 58, 81, 22, 220, 130, 202, 188, 24, 156, 87, 123, 210, 176,
           224, 26, 255, 176, 190, 164, 254, 224, 5, 202, 242, 221, 73, 152, 181, 65, 0,
           0, 0, 1>>>>,
       <<229, 122, 173, 175, 102, 251, 90, 178, 41, 6, 35, 45, 233, 234, 93, 181, 66,
         102, 58, 100, 97, 69, 79, 195, 207, 34, 193, 245, 88, 225, 16, 69, 55, 157, 152,
         116, 118, 107, 157, 49, 19, 95, 144, 16, 115, 163, 53, 220, 25, 95, 147, 143,
         205, 65, 24, 51, 182, 231, 112, 253, 177, 81, 175, 28>>>>,
     <<<<<<235, 54, 3, 196, 141, 1, 234, 5, 183, 76, 96, 142, 100, 201, 141, 246, 154,
           101, 242, 198, 79, 161, 162, 253, 49, 188, 20, 227, 74, 147, 154, 41>>,
         <<3, 75, 201, 47, 246, 153, 113, 221, 187, 40, 171, 95, 102, 179, 142, 75, 187,
           218, 205, 219, 134, 193, 16, 224, 216, 7, 150, 22, 113, 27, 34, 58, 211, 0, 0,
           0, 0>>>>,
       <<86, 251, 208, 240, 136, 210, 206, 205, 107, 102, 99, 124, 223, 34, 39, 108, 246,
         208, 104, 200, 223, 193, 141, 156, 253, 173, 63, 211, 141, 213, 93, 66, 138,
         150, 188, 105, 185, 182, 122, 94, 1, 199, 199, 221, 38, 174, 24, 100, 18, 2,
         230, 120, 153, 87, 11, 225, 110, 116, 66, 62, 47, 40, 88, 86>>>>,
     <<<<<<235, 54, 3, 196, 141, 1, 234, 5, 183, 76, 96, 142, 100, 201, 141, 246, 154,
           101, 242, 198, 79, 161, 162, 253, 49, 188, 20, 227, 74, 147, 154, 41>>,
         <<3, 75, 201, 47, 246, 153, 113, 221, 187, 40, 171, 95, 102, 179, 142, 75, 187,
           218, 205, 219, 134, 193, 16, 224, 216, 7, 150, 22, 113, 27, 34, 58, 211, 0, 0,
           0, 1>>>>,
       <<3, 98, 116, 98, 94, 26, 121, 236, 160, 27, 100, 4, 91, 250, 2, 83, 36, 236, 242,
         212, 5, 120, 202, 56, 0, 247, 115, 86, 6, 185, 17, 23, 84, 226, 110, 202, 26,
         189, 45, 159, 90, 219, 46, 206, 62, 191, 114, 70, 145, 18, 214, 222, 138, 66,
         233, 101, 119, 242, 193, 247, 91, 173, 205, 152>>>>,
     <<<<<<24, 216, 71, 70, 202, 27, 146, 18, 198, 234, 164, 205, 108, 83, 121, 85, 31,
           101, 233, 130, 62, 60, 207, 195, 246, 233, 63, 111, 103, 178, 102, 209>>,
         <<2, 220, 246, 33, 151, 20, 132, 116, 97, 42, 63, 255, 25, 118, 166, 33, 40,
           178, 166, 130, 143, 249, 193, 22, 3, 129, 42, 163, 158, 208, 82, 248, 213, 0,
           0, 0, 0>>>>,
       <<151, 91, 162, 183, 91, 255, 28, 22, 76, 43, 25, 85, 145, 208, 222, 151, 242,
         129, 81, 81, 161, 20, 132, 76, 140, 201, 137, 117, 41, 201, 123, 72, 25, 171,
         73, 137, 159, 52, 105, 129, 43, 240, 55, 182, 114, 33, 250, 111, 67, 87, 201,
         254, 138, 37, 8, 85, 175, 245, 230, 217, 106, 180, 217, 174>>>>,
     <<<<<<24, 216, 71, 70, 202, 27, 146, 18, 198, 234, 164, 205, 108, 83, 121, 85, 31,
           101, 233, 130, 62, 60, 207, 195, 246, 233, 63, 111, 103, 178, 102, 209>>,
         <<2, 220, 246, 33, 151, 20, 132, 116, 97, 42, 63, 255, 25, 118, 166, 33, 40,
           178, 166, 130, 143, 249, 193, 22, 3, 129, 42, 163, 158, 208, 82, 248, 213, 0,
           0, 0, 1>>>>,
       <<84, 214, 224, 171, 165, 197, 206, 60, 229, 170, 43, 80, 170, 122, 90, 208, 152,
         4, 84, 252, 203, 38, 111, 99, 94, 227, 190, 232, 128, 217, 255, 189, 1, 103,
         180, 244, 220, 113, 236, 193, 115, 90, 79, 155, 78, 115, 124, 54, 40, 43, 245,
         28, 242, 208, 107, 117, 84, 191, 129, 74, 165, 132, 231, 68>>>>,
     <<<<<<24, 216, 71, 70, 202, 27, 146, 18, 198, 234, 164, 205, 108, 83, 121, 85, 31,
           101, 233, 130, 62, 60, 207, 195, 246, 233, 63, 111, 103, 178, 102, 209>>,
         <<2, 220, 246, 33, 151, 20, 132, 116, 97, 42, 63, 255, 25, 118, 166, 33, 40,
           178, 166, 130, 143, 249, 193, 22, 3, 129, 42, 163, 158, 208, 82, 248, 213, 0,
           0, 0, 2>>>>,
       <<241, 199, 111, 141, 226, 150, 152, 61, 21, 36, 245, 171, 180, 19, 180, 68, 30,
         138, 255, 0, 163, 225, 118, 246, 57, 187, 90, 69, 78, 138, 36, 111, 155, 192,
         218, 76, 169, 253, 125, 206, 76, 154, 150, 215, 195, 91, 207, 235, 18, 29, 70,
         78, 45, 132, 171, 35, 158, 69, 182, 198, 194, 149, 241, 113>>>>>>
    \o <<<<<<<<241, 70, 99, 143, 165, 150, 202, 6, 201, 250, 71, 88, 47, 196, 68, 5, 191, 40,
           177, 186, 148, 76, 49, 151, 215, 80, 120, 103, 5, 95, 6, 197>>,
         <<3, 100, 186, 251, 140, 63, 1, 224, 63, 202, 77, 109, 216, 160, 35, 113, 250,
           7, 168, 68, 37, 13, 110, 241, 141, 174, 141, 164, 27, 82, 199, 227, 244, 0, 0,
           0, 0>>>>,
       <<64, 236, 127, 197, 149, 210, 157, 173, 211, 46, 99, 154, 93, 250, 34, 217, 53,
         137, 19, 160, 176, 126, 124, 123, 86, 92, 55, 103, 111, 220, 55, 27, 9, 235,
         159, 156, 213, 50, 149, 73, 24, 34, 31, 137, 25, 232, 46, 51, 66, 246, 241, 233,
         251, 191, 99, 121, 122, 0, 214, 150, 43, 52, 183, 95>>>>,
     <<<<<<241, 70, 99, 143, 165, 150, 202, 6, 201, 250, 71, 88, 47, 196, 68, 5, 191, 40,
           177, 186, 148, 76, 49, 151, 215, 80, 120, 103, 5, 95, 6, 197>>,
         <<3, 100, 186, 251, 140, 63, 1, 224, 63, 202, 77, 109, 216, 160, 35, 113, 250,
           7, 168, 68, 37, 13, 110, 241, 141, 174, 141, 164, 27, 82, 199, 227, 244, 0, 0,
           0, 1>>>>,
       <<201, 116, 78, 52, 91, 185, 175, 134, 35, 190, 167, 22, 95, 186, 207, 251, 223,
         248, 244, 172, 35, 104, 100, 246, 58, 5, 249, 237, 146, 234, 97, 144, 203, 149,
         42, 173, 52, 52, 9, 96, 115, 162, 61, 156, 245, 11, 37, 69, 60, 186, 178, 44,
         18, 46, 138, 16, 60, 144, 105, 143, 148, 188, 158, 254>>>>,
     <<<<<<241, 70, 99, 143, 165, 150, 202, 6, 201, 250, 71, 88, 47, 196, 68, 5, 191, 40,
           177, 186, 148, 76, 49, 151, 215, 80, 120, 103, 5, 95, 6, 197>>,
         <<3, 100, 186, 251, 140, 63, 1, 224, 63, 202, 77, 109, 216, 160, 35, 113, 250,
           7, 168, 68, 37, 13, 110, 241, 141, 174, 141, 164, 27, 82, 199, 227, 244, 0, 0,
           0, 2>>>>,
       <<15, 94, 219, 173, 118, 67, 86, 209, 77, 126, 201, 254, 64, 230, 34, 23, 115,
         134, 135, 115, 80, 233, 7, 49, 179, 245, 133, 23, 201, 84, 242, 61, 206, 241,
         233, 16, 178, 41, 221, 166, 224, 28, 227, 193, 72, 253, 245, 27, 206, 90, 3,
         196, 232, 190, 156, 149, 181, 21, 253, 13, 159, 98, 127, 141>>>>,
     <<<<<<247, 184, 189, 146, 207, 53, 128, 51, 186, 77, 201, 228, 21, 224, 42, 87, 195,
           175, 223, 227, 148, 99, 130, 22, 101, 25, 182, 110, 97, 251, 155, 186>>,
         <<2, 238, 160, 210, 206, 216, 180, 151, 95, 39, 114, 122, 234, 27, 97, 162, 201,
           128, 213, 165, 214, 252, 25, 205, 180, 72, 217, 101, 100, 43, 243, 52, 174, 0,
           0, 0, 0>>>>,
       <<167, 43, 5, 62, 15, 110, 54, 28, 172, 187, 47, 38, 69, 89, 211, 151, 142, 69,
         19, 199, 125, 184, 72, 26, 178, 114, 72, 88, 237, 42, 99, 120, 147, 215, 87,
         176, 26, 141, 42, 213, 62, 95, 42, 84, 212, 223, 255, 92, 54, 137, 44, 238, 11,
         38, 229, 15, 50, 242, 211, 64, 53, 175, 162, 111>>>>,
     <<<<<<247, 184, 189, 146, 207, 53, 128, 51, 186, 77, 201, 228, 21, 224, 42, 87, 195,
           175, 223, 227, 148, 99, 130, 22, 101, 25, 182, 110, 97, 251, 155, 186>>,
         <<2, 238, 160, 210, 206, 216, 180, 151, 95, 39, 114, 122, 234, 27, 97, 162, 201,
           128, 213, 165, 214, 252, 25, 205, 180, 72, 217, 101, 100, 43, 243, 52, 174, 0,
           0, 0, 1>>>>,
       <<50, 36, 205, 244, 151, 139, 90, 76, 39, 11, 191, 211, 66, 235, 255, 130, 226,
         124, 245, 179, 114, 159, 142, 135, 134, 47, 206, 101, 214, 93, 203, 47, 147,
         225, 216, 46, 122, 75, 170, 176, 4, 230, 238, 151, 114, 201, 20, 56, 78, 39,
         172, 172, 176, 119, 217, 81, 160, 27, 252, 65, 124, 131, 137, 227>>>>,
     <<<<<<248, 117, 202, 123, 199, 61, 232, 135, 131, 52, 152, 126, 245, 166, 23, 50,
           27, 147, 69, 243, 120, 242, 8, 250, 220, 109, 146, 22, 150, 186, 201, 92>>,
         <<2, 117, 70, 52, 128, 194, 134, 146, 168, 59, 40, 227, 101, 74, 63, 138, 243,
           46, 18, 141, 131, 11, 208, 112, 253, 131, 217, 185, 103, 187, 165, 69, 53, 0,
           0, 0, 0>>>>,
       <<81, 55, 97, 12, 221, 205, 232, 99, 10, 251, 170, 31, 98, 203, 83, 48, 120, 129,
         133, 14, 244, 87, 113, 70, 48, 44, 183, 14, 144, 81, 194, 87, 8, 102, 189, 38,
         29, 7, 157, 28, 56, 115, 153, 67, 52, 60, 111, 178, 179, 255, 185, 161, 102, 29,
         166, 57, 215, 92, 206, 226, 192, 154, 26, 116>>>>,
     <<<<<<248, 117, 202, 123, 199, 61, 232, 135, 131, 52, 152, 126, 245, 166, 23, 50,
           27, 147, 69, 243, 120, 242, 8, 250, 220, 109, 146, 22, 150, 186, 201, 92>>,
         <<2, 117, 70, 52, 128, 194, 134, 146, 168, 59, 40, 227, 101, 74, 63, 138, 243,
           46, 18, 141, 131, 11, 208, 112, 253, 131, 217, 185, 103, 187, 165, 69, 53, 0,
           0, 0, 1>>>>,
       <<203, 70, 156, 179, 96, 184, 170, 119, 46, 193, 155, 146, 16, 134, 223, 188, 65,
         129, 61, 78, 245, 189, 51, 27, 100, 249, 143, 53, 100, 16, 86, 207, 31, 120,
         214, 74, 114, 166, 220, 92, 149, 114, 59, 197, 76, 102, 192, 105, 88, 106, 130,
         220, 147, 221, 133, 78, 9, 39, 182, 30, 219, 34, 118, 220>>>>,
     <<<<<<248, 117, 202, 123, 199, 61, 232, 135, 131, 52, 152, 126, 245, 166, 23, 50,
           27, 147, 69, 243, 120, 242, 8, 250, 220, 109, 146, 22, 150, 186, 201, 92>>,
         <<2, 117, 70, 52, 128, 194, 134, 146, 168, 59, 40, 227, 101, 74, 63, 138, 243,
           46, 18, 141, 131, 11, 208, 112, 253, 131, 217, 185, 103, 187, 165, 69, 53, 0,
           0, 0, 2>>>>,
       <<23, 116, 122, 19, 239, 69, 91, 162, 207, 149, 207, 218, 43, 12, 217, 253, 22,
         108, 43, 161, 0, 170, 101, 224, 239, 17, 101, 200, 19, 207, 146, 0, 57, 159, 15,
         13, 220, 251, 72, 102, 138, 173, 121, 172, 165, 64, 87, 193, 218, 227, 86, 216,
         221, 155, 35, 233, 7, 88, 72, 243, 110, 86, 9, 245>>>>,
     <<<<<<254, 79, 57, 137, 41, 82, 236, 3, 209, 35, 146, 47, 136, 9, 252, 12, 60, 146,
           209, 3, 168, 229, 60, 62, 159, 147, 251, 5, 245, 233, 178, 231>>,
         <<3, 3, 35, 229, 9, 232, 134, 125, 61, 128, 58, 206, 180, 30, 114, 92, 253, 171,
           162, 58, 252, 206, 138, 86, 252, 186, 166, 164, 2, 33, 192, 184, 212, 0, 0, 0,
           0>>>>,
       <<31, 115, 89, 101, 113, 73, 192, 190, 161, 165, 235, 147, 160, 65, 108, 89, 67,
         92, 208, 86, 171, 66, 234, 153, 135, 84, 193, 112, 230, 1, 3, 159, 241, 70, 99,
         143, 165, 150, 202, 6, 201, 250, 71, 88, 47, 196, 68, 5, 191, 40, 177, 186, 148,
         76, 49, 151, 215, 80, 120, 103, 5, 95, 6, 197>>>>,
     <<<<<<254, 79, 57, 137, 41, 82, 236, 3, 209, 35, 146, 47, 136, 9, 252, 12, 60, 146,
           209, 3, 168, 229, 60, 62, 159, 147, 251, 5, 245, 233, 178, 231>>,
         <<3, 3, 35, 229, 9, 232, 134, 125, 61, 128, 58, 206, 180, 30, 114, 92, 253, 171,
           162, 58, 252, 206, 138, 86, 252, 186, 166, 164, 2, 33, 192, 184, 212, 0, 0, 0,
           1>>>>,
       <<176, 244, 196, 166, 80, 124, 160, 253, 41, 117, 122, 116, 6, 25, 187, 50, 193,
         143, 83, 50, 68, 80, 185, 25, 130, 218, 37, 219, 114, 50, 73, 120, 108, 85, 113,
         18, 4, 171, 148, 57, 76, 168, 32, 209, 42, 97, 117, 238, 12, 184, 207, 245, 129,
         206, 46, 133, 72, 254, 150, 200, 27, 154, 42, 124>>>>,
     <<<<<<26, 188, 118, 204, 248, 180, 4, 27, 234, 227, 222, 16, 165, 131, 53, 165, 137,
           217, 142, 96, 129, 101, 211, 107, 121, 45, 122, 15, 204, 17, 207, 14>>,
         <<3, 96, 231, 116, 227, 39, 78, 7, 71, 9, 140, 22, 132, 26, 220, 195, 111, 101,
           223, 61, 102, 105, 226, 40, 149, 19, 84, 191, 155, 100, 255, 200, 221, 0, 0,
           0, 0>>>>,
       <<225, 124, 52, 102, 55, 111, 251, 152, 161, 179, 248, 14, 22, 223, 29, 6, 147, 0,
         50, 198, 54, 130, 104, 53, 214, 137, 83, 68, 173, 211, 73, 146, 46, 222, 166,
         180, 230, 139, 244, 236, 47, 137, 83, 122, 93, 251, 202, 154, 166, 205, 144,
         228, 94, 155, 32, 80, 150, 65, 246, 12, 34, 205, 90, 132>>>>,
     <<<<<<26, 188, 118, 204, 248, 180, 4, 27, 234, 227, 222, 16, 165, 131, 53, 165, 137,
           217, 142, 96, 129, 101, 211, 107, 121, 45, 122, 15, 204, 17, 207, 14>>,
         <<3, 96, 231, 116, 227, 39, 78, 7, 71, 9, 140, 22, 132, 26, 220, 195, 111, 101,
           223, 61, 102, 105, 226, 40, 149, 19, 84, 191, 155, 100, 255, 200, 221, 0, 0,
           0, 1>>>>,
       <<222, 20, 96, 72, 184, 50, 97, 13, 233, 137, 199, 223, 173, 63, 240, 1, 131, 150,
         66, 128, 176, 145, 182, 239, 152, 3, 88, 239, 187, 203, 161, 3, 116, 90, 24,
         221, 94, 195, 104, 107, 80, 214, 246, 36, 82, 194, 55, 72, 134, 80, 224, 59,
         194, 176, 24, 121, 10, 98, 81, 212, 11, 182, 51, 34>>>>,
     <<<<<<26, 188, 118, 204, 248, 180, 4, 27, 234, 227, 222, 16, 165, 131, 53, 165, 137,
           217, 142, 96, 129, 101, 211, 107, 121, 45, 122, 15, 204, 17, 207, 14>>,
         <<3, 96, 231, 116, 227, 39, 78, 7, 71, 9, 140, 22, 132, 26, 220, 195, 111, 101,
           223, 61, 102, 105, 226, 40, 149, 19, 84, 191, 155, 100, 255, 200, 221, 0, 0,
           0, 2>>>>,
       <<83, 98, 124, 161, 37, 66, 169, 167, 182, 174, 16, 23, 1, 167, 159, 239, 210,
         222, 5, 11, 106, 65, 102, 242, 218, 197, 113, 31, 94, 109, 245, 200, 139, 183,
         6, 143, 226, 179, 144, 49, 128, 45, 144, 38, 192, 158, 243, 237, 217, 155, 195,
         123, 216, 13, 115, 75, 84, 228, 32, 208, 62, 55, 173, 95>>>>,
     <<<<<<27, 135, 128, 185, 54, 161, 167, 179, 6, 252, 95, 90, 58, 31, 33, 55, 254,
           208, 3, 190, 241, 162, 0, 114, 207, 187, 215, 54, 80, 133, 58, 172>>,
         <<2, 132, 11, 96, 208, 169, 203, 123, 245, 157, 217, 135, 190, 226, 38, 113,
           211, 110, 19, 18, 150, 122, 216, 19, 84, 34, 27, 37, 193, 201, 132, 107, 201,
           0, 0, 0, 0>>>>,
       <<109, 204, 155, 180, 143, 202, 102, 178, 67, 236, 224, 144, 203, 241, 234, 150,
         0, 59, 181, 204, 75, 105, 174, 98, 57, 132, 180, 203, 4, 141, 21, 234, 10, 52,
         216, 25, 125, 179, 56, 142, 178, 117, 218, 232, 72, 158, 247, 229, 198, 164,
         169, 159, 233, 205, 235, 70, 119, 19, 95, 96, 100, 102, 190, 132>>>>,
     <<<<<<27, 135, 128, 185, 54, 161, 167, 179, 6, 252, 95, 90, 58, 31, 33, 55, 254,
           208, 3, 190, 241, 162, 0, 114, 207, 187, 215, 54, 80, 133, 58, 172>>,
         <<2, 132, 11, 96, 208, 169, 203, 123, 245, 157, 217, 135, 190, 226, 38, 113,
           211, 110, 19, 18, 150, 122, 216, 19, 84, 34, 27, 37, 193, 201, 132, 107, 201,
           0, 0, 0, 1>>>>,
       <<181, 249, 205, 20, 191, 149, 233, 35, 23, 31, 67, 166, 234, 209, 154, 251, 143,
         61, 89, 71, 20, 173, 139, 225, 215, 161, 171, 166, 204, 27, 172, 96, 224, 78,
         17, 137, 69, 12, 50, 58, 23, 211, 169, 67, 71, 233, 80, 138, 212, 232, 225, 105,
         200, 73, 149, 140, 56, 61, 236, 73, 164, 140, 128, 145>>>>,
     <<<<<<29, 51, 42, 104, 75, 116, 100, 241, 163, 185, 65, 216, 121, 133, 76, 107, 3,
           72, 246, 136, 185, 249, 146, 5, 108, 72, 33, 28, 242, 229, 78, 57>>,
         <<2, 203, 81, 185, 133, 19, 98, 55, 68, 131, 164, 145, 96, 181, 139, 240, 252,
           118, 243, 36, 180, 90, 130, 114, 168, 232, 37, 176, 107, 94, 207, 58, 90, 0,
           0, 0, 0>>>>,
       <<211, 186, 226, 253, 207, 234, 243, 24, 77, 74, 187, 68, 147, 29, 118, 119, 127,
         81, 186, 4, 183, 234, 151, 229, 40, 239, 37, 75, 130, 172, 94, 247, 188, 226,
         37, 43, 26, 91, 118, 156, 172, 146, 142, 245, 37, 127, 113, 99, 154, 124, 237,
         163, 208, 111, 228, 180, 198, 196, 61, 71, 118, 91, 149, 190>>>>>>
    \o <<<<<<<<29, 51, 42, 104, 75, 116, 100, 241, 163, 185, 65, 216, 121, 133, 76, 107, 3,
           72, 246, 136, 185, 249, 146, 5, 108, 72, 33, 28, 242, 229, 78, 57>>,
         <<2, 203, 81, 185, 133, 19, 98, 55, 68, 131, 164, 145, 96, 181, 139, 240, 252,
           118, 243, 36, 180, 90, 130, 114, 168, 232, 37, 176, 107, 94, 207, 58, 90, 0,
           0, 0, 1>>>>,
       <<192, 209, 3, 135, 119, 160, 10, 98, 72, 79, 245, 253, 59, 215, 239, 14, 127,
         184, 174, 229, 60, 103, 116, 190, 67, 8, 221, 201, 197, 218, 203, 173, 225, 243,
         136, 14, 43, 244, 144, 206, 74, 139, 12, 10, 49, 224, 185, 232, 51, 150, 51, 60,
         218, 141, 121, 119, 101, 53, 234, 8, 10, 174, 142, 169>>>>,
     <<<<<<29, 51, 42, 104, 75, 116, 100, 241, 163, 185, 65, 216, 121, 133, 76, 107, 3,
           72, 246, 136, 185, 249, 146, 5, 108, 72, 33, 28, 242, 229, 78, 57>>,
         <<2, 203, 81, 185, 133, 19, 98, 55, 68, 131, 164, 145, 96, 181, 139, 240, 252,
           118, 243, 36, 180, 90, 130, 114, 168, 232, 37, 176, 107, 94, 207, 58, 90, 0,
           0, 0, 2>>>>,
       <<8, 190, 24, 16, 248, 12, 65, 30, 245, 233, 247, 203, 111, 26, 161, 15, 41, 253,
         32, 249, 209, 194, 146, 245, 248, 73, 238, 180, 118, 143, 192, 80, 226, 227,
         217, 218, 33, 150, 132, 253, 60, 3, 187, 53, 187, 81, 155, 42, 33, 22, 73, 216,
         68, 157, 171, 4, 85, 85, 31, 15, 55, 75, 139, 47>>>>,
     <<<<<<29, 70, 218, 228, 185, 144, 139, 185, 135, 158, 165, 211, 169, 91, 62, 169,
           52, 185, 207, 94, 112, 52, 103, 15, 142, 97, 1, 62, 221, 40, 242, 73>>,
         <<3, 162, 167, 106, 225, 172, 31, 171, 156, 41, 229, 101, 36, 215, 23, 115, 197,
           134, 103, 22, 167, 40, 88, 67, 144, 78, 207, 215, 197, 157, 200, 43, 95, 0, 0,
           0, 0>>>>,
       <<188, 124, 161, 203, 34, 35, 97, 216, 8, 69, 246, 213, 4, 99, 175, 98, 190, 226,
         138, 151, 17, 246, 41, 104, 157, 207, 67, 27, 112, 152, 29, 162, 99, 212, 66,
         116, 82, 136, 104, 23, 8, 215, 99, 111, 120, 105, 21, 35, 181, 160, 246, 149,
         73, 103, 67, 149, 78, 135, 225, 49, 255, 4, 232, 211>>>>,
     <<<<<<29, 70, 218, 228, 185, 144, 139, 185, 135, 158, 165, 211, 169, 91, 62, 169,
           52, 185, 207, 94, 112, 52, 103, 15, 142, 97, 1, 62, 221, 40, 242, 73>>,
         <<3, 162, 167, 106, 225, 172, 31, 171, 156, 41, 229, 101, 36, 215, 23, 115, 197,
           134, 103, 22, 167, 40, 88, 67, 144, 78, 207, 215, 197, 157, 200, 43, 95, 0, 0,
           0, 1>>>>,
       <<159, 6, 148, 78, 1, 177, 217, 63, 203, 237, 20, 96, 201, 213, 174, 72, 210, 214,
         108, 46, 151, 233, 111, 120, 250, 37, 15, 152, 146, 91, 130, 114, 145, 251, 227,
         73, 112, 203, 150, 45, 170, 229, 40, 89, 37, 37, 65, 221, 83, 64, 61, 92, 141,
         178, 254, 27, 247, 42, 118, 44, 117, 146, 49, 247>>>>,
     <<<<<<40, 124, 195, 129, 46, 243, 158, 68, 132, 69, 116, 72, 184, 178, 186, 113, 37,
           251, 122, 63, 55, 85, 38, 80, 241, 124, 230, 149, 38, 195, 205, 169>>,
         <<0, 182, 133, 94, 26, 51, 254, 213, 113, 58, 55, 89, 202, 38, 116, 203, 27,
           210, 121, 190, 144, 105, 95, 223, 58, 88, 86, 132, 170, 0, 171, 71, 145, 128,
           0, 0, 0>>>>,
       <<211, 204, 214, 103, 236, 146, 49, 130, 163, 140, 113, 69, 206, 224, 17, 91, 230,
         75, 240, 194, 131, 206, 55, 79, 41, 157, 34, 171, 168, 85, 97, 61, 254, 79, 57,
         137, 41, 82, 236, 3, 209, 35, 146, 47, 136, 9, 252, 12, 60, 146, 209, 3, 168,
         229, 60, 62, 159, 147, 251, 5, 245, 233, 178, 231>>>>,
     <<<<<<43, 78, 217, 122, 86, 34, 100, 191, 173, 95, 182, 112, 60, 206, 160, 107, 49,
           106, 253, 97, 198, 205, 241, 73, 69, 75, 73, 113, 148, 94, 34, 51>>,
         <<3, 188, 146, 189, 21, 106, 87, 225, 26, 170, 163, 70, 29, 64, 67, 146, 110,
           100, 78, 71, 248, 235, 20, 149, 198, 190, 221, 82, 20, 230, 13, 21, 96, 0, 0,
           0, 0>>>>,
       <<214, 126, 199, 236, 87, 60, 22, 28, 169, 66, 187, 2, 151, 36, 250, 174, 49, 151,
         254, 218, 29, 230, 66, 164, 48, 17, 195, 244, 4, 213, 154, 94, 29, 51, 42, 104,
         75, 116, 100, 241, 163, 185, 65, 216, 121, 133, 76, 107, 3, 72, 246, 136, 185,
         249, 146, 5, 108, 72, 33, 28, 242, 229, 78, 57>>>>,
     <<<<<<43, 78, 217, 122, 86, 34, 100, 191, 173, 95, 182, 112, 60, 206, 160, 107, 49,
           106, 253, 97, 198, 205, 241, 73, 69, 75, 73, 113, 148, 94, 34, 51>>,
         <<3, 188, 146, 189, 21, 106, 87, 225, 26, 170, 163, 70, 29, 64, 67, 146, 110,
           100, 78, 71, 248, 235, 20, 149, 198, 190, 221, 82, 20, 230, 13, 21, 96, 0, 0,
           0, 1>>>>,
       <<220, 40, 76, 117, 182, 46, 4, 246, 68, 93, 199, 164, 68, 38, 47, 163, 5, 62,
         155, 104, 55, 228, 24, 240, 130, 60, 216, 45, 167, 223, 158, 35, 168, 190, 35,
         15, 159, 241, 183, 20, 104, 176, 225, 162, 169, 72, 66, 238, 252, 39, 116, 131,
         150, 116, 9, 18, 152, 143, 101, 17, 85, 193, 167, 107>>>>,
     <<<<<<5, 7, 221, 249, 172, 69, 99, 231, 73, 31, 220, 129, 158, 148, 38, 236, 3, 159,
           30, 146, 97, 140, 217, 169, 162, 219, 75, 48, 70, 251, 41, 20>>,
         <<0, 11, 214, 209, 231, 247, 203, 38, 121, 34, 92, 100, 19, 62, 158, 38, 207,
           40, 218, 88, 178, 13, 95, 91, 147, 77, 139, 19, 214, 24, 148, 74, 114, 128, 0,
           0, 0>>>>,
       <<182, 25, 154, 187, 74, 169, 220, 249, 125, 133, 139, 223, 92, 245, 154, 159,
         141, 207, 140, 178, 246, 227, 85, 210, 145, 238, 76, 131, 124, 151, 181, 253,
         235, 54, 3, 196, 141, 1, 234, 5, 183, 76, 96, 142, 100, 201, 141, 246, 154, 101,
         242, 198, 79, 161, 162, 253, 49, 188, 20, 227, 74, 147, 154, 41>>>>,
     <<<<<<53, 173, 151, 191, 81, 238, 188, 81, 0, 95, 134, 222, 144, 223, 46, 8, 23,
           102, 211, 38, 21, 207, 168, 140, 0, 228, 170, 0, 113, 91, 134, 212>>,
         <<3, 74, 55, 231, 70, 158, 122, 213, 159, 207, 81, 0, 5, 50, 89, 201, 40, 191,
           64, 207, 159, 191, 86, 16, 134, 59, 110, 232, 190, 146, 229, 191, 245, 0, 0,
           0, 0>>>>,
       <<12, 178, 146, 215, 70, 124, 27, 90, 162, 230, 150, 38, 165, 44, 112, 117, 181,
         40, 72, 143, 135, 65, 24, 9, 56, 68, 49, 240, 227, 64, 225, 169, 135, 95, 2,
         154, 93, 83, 222, 202, 122, 151, 105, 253, 122, 215, 203, 221, 210, 42, 166, 23,
         74, 75, 180, 81, 101, 171, 172, 228, 150, 78, 233, 150>>>>,
     <<<<<<53, 173, 151, 191, 81, 238, 188, 81, 0, 95, 134, 222, 144, 223, 46, 8, 23,
           102, 211, 38, 21, 207, 168, 140, 0, 228, 170, 0, 113, 91, 134, 212>>,
         <<3, 74, 55, 231, 70, 158, 122, 213, 159, 207, 81, 0, 5, 50, 89, 201, 40, 191,
           64, 207, 159, 191, 86, 16, 134, 59, 110, 232, 190, 146, 229, 191, 245, 0, 0,
           0, 1>>>>,
       <<189, 149, 12, 32, 142, 144, 4, 13, 140, 208, 20, 2, 29, 171, 160, 150, 75, 107,
         228, 170, 244, 66, 214, 69, 65, 139, 122, 18, 242, 51, 130, 88, 219, 246, 81,
         209, 99, 152, 157, 17, 96, 188, 91, 222, 255, 36, 120, 198, 175, 87, 102, 86,
         68, 87, 190, 19, 89, 249, 18, 26, 76, 241, 192, 76>>>>,
     <<<<<<53, 173, 151, 191, 81, 238, 188, 81, 0, 95, 134, 222, 144, 223, 46, 8, 23,
           102, 211, 38, 21, 207, 168, 140, 0, 228, 170, 0, 113, 91, 134, 212>>,
         <<3, 74, 55, 231, 70, 158, 122, 213, 159, 207, 81, 0, 5, 50, 89, 201, 40, 191,
           64, 207, 159, 191, 86, 16, 134, 59, 110, 232, 190, 146, 229, 191, 245, 0, 0,
           0, 2>>>>,
       <<130, 3, 188, 84, 29, 245, 71, 231, 121, 10, 221, 217, 43, 40, 70, 103, 140, 76,
         42, 77, 95, 200, 151, 94, 150, 87, 120, 116, 98, 82, 38, 108, 19, 154, 172, 143,
         54, 70, 215, 202, 71, 13, 178, 149, 209, 240, 240, 25, 238, 251, 171, 90, 170,
         128, 208, 4, 140, 184, 177, 37, 115, 115, 160, 228>>>>,
     <<<<<<55, 157, 152, 116, 118, 107, 157, 49, 19, 95, 144, 16, 115, 163, 53, 220, 25,
           95, 147, 143, 205, 65, 24, 51, 182, 231, 112, 253, 177, 81, 175, 28>>,
         <<2, 133, 60, 120, 98, 91, 231, 186, 65, 62, 165, 67, 236, 178, 41, 114, 233,
           50, 9, 143, 230, 123, 85, 128, 33, 141, 248, 121, 45, 199, 40, 207, 77, 0, 0,
           0, 0>>>>,
       <<25, 6, 85, 143, 249, 231, 162, 94, 186, 55, 100, 17, 205, 1, 33, 39, 92, 92,
         156, 211, 52, 74, 32, 4, 126, 2, 117, 59, 217, 90, 167, 167, 198, 55, 208, 24,
         171, 122, 6, 197, 64, 42, 183, 158, 68, 38, 7, 168, 237, 71, 138, 6, 211, 178,
         109, 180, 135, 95, 236, 77, 232, 113, 107, 166>>>>,
     <<<<<<55, 157, 152, 116, 118, 107, 157, 49, 19, 95, 144, 16, 115, 163, 53, 220, 25,
           95, 147, 143, 205, 65, 24, 51, 182, 231, 112, 253, 177, 81, 175, 28>>,
         <<2, 133, 60, 120, 98, 91, 231, 186, 65, 62, 165, 67, 236, 178, 41, 114, 233,
           50, 9, 143, 230, 123, 85, 128, 33, 141, 248, 121, 45, 199, 40, 207, 77, 0, 0,
           0, 1>>>>,
       <<86, 149, 134, 252, 249, 42, 207, 19, 77, 67, 60, 150, 117, 102, 137, 79, 81, 45,
         166, 247, 96, 216, 255, 44, 183, 18, 176, 4, 179, 101, 26, 191, 250, 22, 144,
         103, 8, 57, 37, 95, 220, 38, 69, 190, 203, 237, 54, 46, 190, 30, 233, 90, 214,
         101, 169, 147, 20, 108, 192, 178, 214, 253, 115, 88>>>>,
     <<<<<<55, 157, 152, 116, 118, 107, 157, 49, 19, 95, 144, 16, 115, 163, 53, 220, 25,
           95, 147, 143, 205, 65, 24, 51, 182, 231, 112, 253, 177, 81, 175, 28>>,
         <<2, 133, 60, 120, 98, 91, 231, 186, 65, 62, 165, 67, 236, 178, 41, 114, 233,
           50, 9, 143, 230, 123, 85, 128, 33, 141, 248, 121, 45, 199, 40, 207, 77, 0, 0,
           0, 2>>>>,
       <<212, 17, 246, 136, 23, 195, 115, 167, 51, 16, 46, 146, 174, 92, 196, 102, 90,
         114, 38, 131, 32, 8, 189, 191, 133, 174, 36, 0, 54, 115, 196, 179, 77, 242, 39,
         5, 248, 180, 16, 255, 137, 71, 158, 203, 56, 124, 246, 24, 128, 112, 45, 128,
         214, 203, 146, 122, 162, 208, 193, 84, 132, 74, 52, 135>>>>,
     <<<<<<59, 104, 213, 82, 179, 23, 53, 102, 64, 1, 47, 198, 153, 175, 128, 38, 207,
           185, 196, 47, 74, 214, 142, 22, 17, 225, 86, 115, 10, 131, 138, 166>>,
         <<2, 106, 93, 133, 39, 204, 222, 76, 117, 1, 200, 109, 48, 193, 62, 135, 1, 244,
           37, 228, 102, 166, 151, 18, 38, 103, 212, 53, 59, 110, 57, 101, 167, 0, 0, 0,
           0>>>>,
       <<135, 109, 74, 155, 2, 14, 112, 44, 21, 182, 93, 185, 64, 130, 32, 117, 79, 156,
         38, 171, 138, 196, 132, 35, 59, 115, 196, 97, 135, 165, 74, 225, 204, 26, 43,
         75, 16, 210, 178, 185, 12, 50, 155, 149, 5, 149, 207, 70, 75, 9, 152, 129, 31,
         10, 203, 153, 78, 130, 87, 161, 150, 222, 147, 19>>>>,
     <<<<<<59, 104, 213, 82, 179, 23, 53, 102, 64, 1, 47, 198, 153, 175, 128, 38, 207,
           185, 196, 47, 74, 214, 142, 22, 17, 225, 86, 115, 10, 131, 138, 166>>,
         <<2, 106, 93, 133, 39, 204, 222, 76, 117, 1, 200, 109, 48, 193, 62, 135, 1, 244,
           37, 228, 102, 166, 151, 18, 38, 103, 212, 53, 59, 110, 57, 101, 167, 0, 0, 0,
           1>>>>,
       <<92, 148, 167, 228, 141, 158, 0, 109, 207, 237, 87, 158, 27, 211, 191, 143, 195,
         195, 16, 217, 15, 141, 19, 43, 9, 95, 63, 96, 21, 84, 223, 179, 107, 80, 37, 22,
         229, 114, 163, 215, 17, 80, 37, 18, 141, 74, 140, 214, 213, 233, 68, 1, 94, 158,
         15, 171, 87, 119, 125, 111, 252, 134, 155, 230>>>>>>
    \o <<<<<<<<61, 164, 188, 25, 10, 38, 128, 17, 29, 49, 250, 223, 220, 144, 95, 42, 127,
           108, 231, 124, 111, 16, 153, 25, 17, 111, 37, 61, 67, 68, 82, 25>>,
         <<3, 119, 76, 145, 15, 207, 7, 250, 150, 136, 110, 167, 148, 240, 213, 202, 237,
           154, 254, 48, 180, 75, 131, 247, 226, 19, 187, 146, 147, 14, 125, 244, 189, 0,
           0, 0, 0>>>>,
       <<133, 88, 246, 69, 82, 118, 6, 164, 111, 142, 77, 168, 110, 136, 224, 37, 4, 76,
         197, 212, 116, 128, 8, 84, 120, 221, 203, 219, 3, 60, 135, 126, 188, 232, 13,
         213, 128, 121, 44, 209, 138, 245, 66, 121, 14, 86, 170, 129, 49, 120, 220, 40,
         100, 75, 181, 240, 61, 189, 68, 200, 95, 45, 46, 122>>>>,
     <<<<<<61, 164, 188, 25, 10, 38, 128, 17, 29, 49, 250, 223, 220, 144, 95, 42, 127,
           108, 231, 124, 111, 16, 153, 25, 17, 111, 37, 61, 67, 68, 82, 25>>,
         <<3, 119, 76, 145, 15, 207, 7, 250, 150, 136, 110, 167, 148, 240, 213, 202, 237,
           154, 254, 48, 180, 75, 131, 247, 226, 19, 187, 146, 147, 14, 125, 244, 189, 0,
           0, 0, 1>>>>,
       <<174, 202, 144, 95, 4, 67, 27, 29, 30, 139, 213, 35, 218, 220, 51, 124, 162, 250,
         127, 83, 243, 165, 164, 170, 238, 184, 239, 230, 29, 100, 14, 202, 80, 90, 132,
         37, 89, 75, 139, 167, 58, 181, 114, 246, 199, 123, 88, 2, 194, 154, 79, 251,
         235, 248, 156, 2, 8, 153, 251, 154, 178, 234, 184, 198>>>>,
     <<<<<<63, 213, 90, 248, 213, 233, 91, 151, 2, 147, 2, 241, 250, 135, 166, 241, 39,
           98, 155, 196, 211, 12, 94, 230, 174, 244, 21, 195, 119, 130, 13, 154>>,
         <<0, 13, 41, 103, 152, 96, 155, 31, 186, 190, 169, 6, 43, 193, 177, 59, 193,
           181, 83, 161, 55, 207, 186, 62, 232, 173, 84, 255, 150, 59, 1, 179, 127, 128,
           0, 0, 0>>>>,
       <<87, 101, 148, 15, 50, 83, 79, 144, 6, 77, 100, 168, 117, 89, 229, 75, 122, 97,
         134, 54, 28, 39, 0, 222, 34, 234, 188, 6, 162, 147, 21, 95, 77, 89, 226, 45,
         115, 92, 60, 87, 45, 41, 5, 253, 178, 27, 146, 106, 171, 204, 228, 6, 168, 86,
         243, 182, 169, 172, 251, 89, 122, 112, 73, 35>>>>,
     <<<<<<63, 213, 90, 248, 213, 233, 91, 151, 2, 147, 2, 241, 250, 135, 166, 241, 39,
           98, 155, 196, 211, 12, 94, 230, 174, 244, 21, 195, 119, 130, 13, 154>>,
         <<3, 44, 0, 17, 131, 58, 176, 187, 20, 50, 201, 73, 123, 3, 46, 38, 249, 46, 49,
           99, 123, 173, 225, 207, 240, 44, 237, 126, 90, 28, 43, 80, 135, 0, 0, 0, 0>>>>,
       <<233, 97, 211, 74, 109, 47, 64, 214, 123, 127, 123, 131, 5, 119, 231, 94, 204,
         142, 162, 135, 168, 4, 30, 28, 132, 143, 211, 0, 167, 94, 196, 96, 193, 88, 14,
         16, 128, 93, 148, 197, 164, 90, 24, 40, 77, 108, 22, 0, 24, 105, 9, 40, 187,
         170, 14, 163, 48, 134, 213, 59, 53, 9, 199, 72>>>>,
     <<<<<<66, 105, 116, 99, 111, 105, 110, 32, 115, 101, 101, 100>>,
         <<135, 131, 134, 239, 183, 136, 69, 179, 53, 91, 209, 94, 164, 211, 158, 249,
           125, 23, 156, 183, 18, 183, 125, 92, 18, 182, 190, 65, 95, 255, 239, 254, 95,
           55, 123, 160, 43, 243, 248, 84, 74, 184, 0, 185, 85, 229, 31, 191, 240, 152,
           40, 246, 130, 5, 42, 32, 250, 166, 173, 219, 189, 223, 176, 150>>>>,
       <<126, 86, 236, 245, 148, 61, 121, 225, 245, 248, 126, 17, 199, 104, 37, 61, 127,
         63, 207, 48, 174, 113, 51, 86, 17, 227, 102, 197, 120, 180, 86, 78, 89, 139, 69,
         149, 234, 114, 128, 39, 86, 81, 158, 101, 167, 151, 35, 66, 49, 215, 212, 241,
         61, 101, 12, 176, 109, 177, 89, 87, 194, 54, 139, 27>>>>,
     <<<<<<66, 105, 116, 99, 111, 105, 110, 32, 115, 101, 101, 100>>,
         <<182, 111, 95, 238, 161, 158, 150, 39, 198, 114, 94, 7, 24, 72, 116, 177, 190,
           187, 12, 243, 138, 62, 166, 23, 149, 87, 114, 6, 38, 173, 177, 108, 15, 41,
           83, 62, 92, 202, 86, 69, 185, 1, 243, 163, 42, 145, 62, 196, 146, 184, 217,
           32, 244, 218, 153, 114, 20, 56, 251, 34, 245, 155, 248, 36>>>>,
       <<215, 208, 167, 184, 128, 127, 135, 253, 83, 13, 236, 196, 202, 224, 106, 71, 13,
         193, 18, 176, 213, 250, 87, 210, 102, 6, 4, 73, 82, 42, 180, 84, 154, 211, 220,
         194, 5, 15, 121, 157, 107, 180, 178, 97, 229, 52, 191, 91, 112, 9, 158, 85, 96,
         149, 107, 116, 218, 90, 115, 7, 178, 126, 110, 168>>>>,
     <<<<<<66, 105, 116, 99, 111, 105, 110, 32, 115, 101, 101, 100>>,
         <<29, 52, 113, 253, 79, 106, 6, 5, 164, 141, 219, 38, 28, 13, 210, 123, 175, 3,
           28, 233, 102, 155, 126, 69, 38, 63, 103, 24, 118, 231, 202, 147, 51, 55, 116,
           91, 26, 140, 86, 200, 85, 9, 64, 220, 125, 24, 218, 165, 82, 131, 243, 61,
           165, 117, 117, 254, 125, 192, 139, 151, 49, 82, 141, 32>>>>,
       <<6, 149, 70, 67, 255, 123, 42, 222, 148, 104, 47, 222, 161, 4, 163, 28, 165, 161,
         155, 233, 98, 222, 238, 62, 25, 178, 72, 12, 49, 99, 90, 215, 130, 9, 246, 223,
         9, 199, 201, 41, 153, 93, 183, 89, 238, 254, 53, 154, 96, 11, 16, 106, 236, 50,
         164, 20, 17, 63, 50, 211, 224, 85, 149, 228>>>>,
     <<<<<<66, 105, 116, 99, 111, 105, 110, 32, 115, 101, 101, 100>>,
         <<94, 176, 11, 189, 220, 240, 105, 8, 72, 137, 168, 171, 145, 85, 86, 129, 101,
           245, 196, 83, 204, 184, 94, 112, 129, 26, 174, 214, 246, 218, 95, 193, 154,
           90, 196, 11, 56, 156, 211, 112, 208, 134, 32, 109, 236, 138, 166, 196, 61,
           174, 166, 105, 15, 32, 173, 61, 141, 72, 178, 210, 206, 158, 56, 228>>>>,
       <<24, 55, 193, 190, 142, 41, 149, 236, 17, 205, 162, 176, 102, 21, 27, 226, 207,
         180, 138, 223, 158, 71, 177, 81, 212, 106, 218, 179, 162, 28, 223, 103, 121, 35,
         64, 141, 173, 211, 199, 181, 110, 237, 21, 86, 119, 7, 174, 94, 93, 202, 8, 157,
         233, 114, 224, 127, 59, 134, 4, 80, 226, 163, 183, 14>>>>,
     <<<<<<67, 204, 75, 202, 89, 198, 102, 165, 247, 146, 101, 20, 129, 37, 128, 46, 210,
           206, 196, 109, 241, 197, 202, 142, 106, 5, 141, 171, 82, 90, 115, 241>>,
         <<3, 181, 24, 74, 82, 109, 172, 106, 189, 163, 216, 213, 74, 84, 20, 113, 206,
           131, 232, 194, 38, 13, 86, 112, 96, 83, 226, 120, 9, 34, 49, 159, 94, 0, 0, 0,
           1>>>>,
       <<162, 117, 36, 138, 189, 223, 72, 115, 230, 110, 201, 25, 251, 52, 169, 120, 88,
         207, 186, 217, 75, 160, 69, 208, 83, 34, 44, 137, 210, 180, 38, 184, 38, 197,
         27, 186, 206, 117, 84, 62, 164, 87, 21, 200, 127, 15, 207, 91, 170, 73, 163,
         220, 20, 127, 160, 145, 215, 184, 246, 5, 70, 231, 20, 46>>>>,
     <<<<<<69, 211, 176, 232, 32, 109, 177, 10, 8, 213, 85, 49, 124, 126, 36, 92, 91,
           189, 18, 37, 76, 233, 104, 243, 199, 154, 149, 157, 78, 106, 249, 138>>,
         <<0, 205, 70, 4, 159, 184, 42, 79, 204, 189, 150, 124, 82, 52, 230, 17, 82, 244,
           223, 135, 208, 29, 30, 248, 51, 66, 8, 20, 198, 126, 228, 183, 234, 128, 0, 0,
           0>>>>,
       <<218, 32, 27, 4, 223, 204, 42, 176, 156, 129, 118, 71, 178, 128, 36, 141, 51, 57,
         1, 191, 74, 196, 112, 10, 170, 117, 247, 13, 186, 96, 209, 77, 175, 8, 148, 220,
         95, 45, 91, 237, 13, 200, 91, 47, 210, 5, 58, 152, 87, 87, 101, 193, 68, 228,
         230, 65, 38, 238, 16, 9, 179, 136, 96, 178>>>>,
     <<<<<<69, 211, 176, 232, 32, 109, 177, 10, 8, 213, 85, 49, 124, 126, 36, 92, 91,
           189, 18, 37, 76, 233, 104, 243, 199, 154, 149, 157, 78, 106, 249, 138>>,
         <<3, 66, 138, 45, 163, 231, 98, 145, 102, 122, 103, 163, 142, 212, 84, 104, 206,
           176, 209, 86, 188, 139, 237, 166, 232, 111, 188, 76, 242, 149, 8, 124, 43, 0,
           0, 0, 0>>>>,
       <<129, 100, 204, 179, 10, 225, 0, 197, 167, 139, 117, 123, 229, 230, 172, 134,
         115, 191, 145, 37, 48, 65, 115, 111, 169, 177, 0, 151, 245, 40, 30, 201, 213,
         91, 225, 180, 145, 66, 207, 211, 125, 202, 114, 58, 70, 92, 131, 216, 90, 46,
         147, 156, 82, 59, 171, 103, 183, 241, 49, 229, 138, 116, 43, 59>>>>,
     <<<<<<72, 155, 209, 49, 73, 110, 38, 224, 182, 182, 152, 85, 105, 90, 232, 92, 23,
           3, 77, 13, 66, 211, 78, 243, 166, 193, 105, 35, 249, 151, 222, 12>>,
         <<2, 232, 216, 244, 145, 152, 103, 36, 94, 2, 133, 96, 6, 91, 106, 239, 46, 11,
           45, 216, 19, 66, 181, 227, 131, 252, 182, 245, 233, 158, 53, 106, 117, 0, 0,
           0, 0>>>>,
       <<232, 204, 14, 89, 81, 231, 241, 75, 221, 162, 90, 177, 18, 142, 223, 113, 252,
         58, 40, 59, 208, 228, 221, 77, 197, 30, 150, 193, 218, 224, 84, 59, 160, 79,
         221, 217, 46, 84, 252, 213, 21, 178, 146, 19, 117, 84, 195, 169, 180, 32, 221,
         249, 159, 241, 189, 240, 129, 47, 36, 241, 173, 250, 135, 157>>>>,
     <<<<<<72, 155, 209, 49, 73, 110, 38, 224, 182, 182, 152, 85, 105, 90, 232, 92, 23,
           3, 77, 13, 66, 211, 78, 243, 166, 193, 105, 35, 249, 151, 222, 12>>,
         <<2, 232, 216, 244, 145, 152, 103, 36, 94, 2, 133, 96, 6, 91, 106, 239, 46, 11,
           45, 216, 19, 66, 181, 227, 131, 252, 182, 245, 233, 158, 53, 106, 117, 0, 0,
           0, 1>>>>,
       <<160, 171, 195, 35, 99, 210, 82, 97, 75, 25, 68, 236, 102, 92, 64, 222, 81, 18,
         239, 107, 193, 251, 126, 249, 165, 99, 205, 188, 218, 237, 177, 203, 79, 164,
         165, 119, 45, 31, 132, 205, 81, 145, 177, 181, 211, 171, 113, 44, 237, 235, 188,
         130, 233, 91, 25, 75, 215, 45, 29, 72, 42, 147, 56, 171>>>>,
     <<<<<<72, 155, 209, 49, 73, 110, 38, 224, 182, 182, 152, 85, 105, 90, 232, 92, 23,
           3, 77, 13, 66, 211, 78, 243, 166, 193, 105, 35, 249, 151, 222, 12>>,
         <<2, 232, 216, 244, 145, 152, 103, 36, 94, 2, 133, 96, 6, 91, 106, 239, 46, 11,
           45, 216, 19, 66, 181, 227, 131, 252, 182, 245, 233, 158, 53, 106, 117, 0, 0,
           0, 2>>>>,
       <<154, 97, 24, 146, 47, 251, 88, 8, 26, 190, 97, 238, 11, 48, 112, 188, 224, 201,
         179, 196, 78, 142, 230, 225, 72, 1, 126, 88, 235, 2, 185, 225, 76, 200, 59, 184,
         151, 197, 50, 219, 94, 203, 70, 210, 22, 131, 119, 97, 234, 20, 139, 3, 35, 234,
         146, 56, 10, 107, 170, 78, 64, 8, 5, 37>>>>,
     <<<<<<74, 83, 160, 171, 33, 185, 220, 149, 134, 156, 78, 146, 161, 97, 25, 78, 3,
           192, 239, 63, 245, 1, 74, 198, 146, 244, 51, 196, 118, 84, 144, 252>>,
         <<2, 112, 122, 98, 253, 172, 194, 110, 169, 182, 59, 28, 25, 121, 6, 245, 110,
           224, 24, 13, 11, 207, 25, 102, 225, 162, 218, 52, 245, 243, 160, 154, 155, 0,
           0, 0, 0>>>>,
       <<155, 4, 239, 85, 117, 105, 146, 163, 56, 70, 206, 241, 224, 90, 161, 210, 167,
         43, 141, 174, 98, 174, 168, 115, 102, 104, 147, 161, 3, 252, 81, 253, 95, 177,
         127, 50, 71, 17, 67, 88, 61, 162, 150, 179, 175, 121, 218, 26, 152, 246, 61,
         177, 35, 137, 160, 21, 10, 103, 97, 6, 32, 146, 90, 56>>>>,
     <<<<<<74, 83, 160, 171, 33, 185, 220, 149, 134, 156, 78, 146, 161, 97, 25, 78, 3,
           192, 239, 63, 245, 1, 74, 198, 146, 244, 51, 196, 118, 84, 144, 252>>,
         <<2, 112, 122, 98, 253, 172, 194, 110, 169, 182, 59, 28, 25, 121, 6, 245, 110,
           224, 24, 13, 11, 207, 25, 102, 225, 162, 218, 52, 245, 243, 160, 154, 155, 0,
           0, 0, 1>>>>,
       <<206, 204, 24, 234, 230, 250, 76, 53, 65, 100, 204, 182, 71, 158, 224, 8, 83, 37,
         201, 13, 179, 71, 176, 112, 72, 94, 125, 244, 67, 31, 109, 178, 175, 238, 72,
         104, 9, 188, 23, 67, 184, 234, 176, 93, 200, 27, 65, 144, 15, 202, 233, 166,
         224, 67, 112, 23, 71, 21, 60, 88, 240, 73, 58, 124>>>>>>
    \o <<<<<<<<75, 63, 200, 10, 166, 247, 142, 62, 141, 75, 58, 52, 145, 179, 55, 101, 123,
           87, 193, 32, 220, 48, 191, 152, 70, 201, 215, 40, 4, 224, 228, 204>>,
         <<3, 179, 66, 183, 169, 134, 158, 66, 85, 205, 88, 93, 237, 220, 138, 105, 51,
           54, 177, 244, 88, 24, 90, 249, 47, 188, 216, 155, 57, 108, 105, 179, 212, 0,
           0, 0, 0>>>>,
       <<255, 203, 179, 94, 112, 97, 205, 206, 99, 172, 182, 82, 39, 190, 86, 98, 189,
         207, 116, 96, 143, 219, 84, 67, 24, 39, 115, 180, 113, 19, 235, 185, 241, 251,
         164, 205, 109, 119, 68, 172, 76, 207, 76, 100, 253, 207, 16, 36, 87, 202, 211,
         68, 70, 77, 175, 178, 36, 96, 165, 167, 109, 42, 208, 45>>>>,
     <<<<<<75, 63, 200, 10, 166, 247, 142, 62, 141, 75, 58, 52, 145, 179, 55, 101, 123,
           87, 193, 32, 220, 48, 191, 152, 70, 201, 215, 40, 4, 224, 228, 204>>,
         <<3, 179, 66, 183, 169, 134, 158, 66, 85, 205, 88, 93, 237, 220, 138, 105, 51,
           54, 177, 244, 88, 24, 90, 249, 47, 188, 216, 155, 57, 108, 105, 179, 212, 0,
           0, 0, 1>>>>,
       <<50, 239, 122, 124, 53, 117, 189, 243, 228, 210, 81, 131, 163, 68, 110, 74, 35,
         153, 171, 153, 65, 94, 242, 69, 177, 154, 91, 98, 189, 38, 56, 188, 255, 205,
         28, 116, 221, 192, 230, 107, 106, 76, 180, 160, 200, 127, 234, 81, 153, 198,
         245, 171, 71, 131, 190, 235, 112, 16, 224, 40, 130, 104, 23, 166>>>>,
     <<<<<<75, 63, 200, 10, 166, 247, 142, 62, 141, 75, 58, 52, 145, 179, 55, 101, 123,
           87, 193, 32, 220, 48, 191, 152, 70, 201, 215, 40, 4, 224, 228, 204>>,
         <<3, 179, 66, 183, 169, 134, 158, 66, 85, 205, 88, 93, 237, 220, 138, 105, 51,
           54, 177, 244, 88, 24, 90, 249, 47, 188, 216, 155, 57, 108, 105, 179, 212, 0,
           0, 0, 2>>>>,
       <<189, 177, 205, 61, 107, 123, 227, 218, 67, 88, 32, 64, 109, 39, 227, 110, 20,
         209, 42, 248, 28, 212, 191, 176, 32, 184, 243, 103, 178, 228, 166, 1, 105, 245,
         30, 59, 247, 74, 31, 223, 148, 55, 135, 75, 251, 145, 38, 195, 169, 83, 234,
         119, 202, 18, 97, 192, 239, 118, 102, 237, 112, 241, 43, 192>>>>,
     <<<<<<77, 89, 226, 45, 115, 92, 60, 87, 45, 41, 5, 253, 178, 27, 146, 106, 171, 204,
           228, 6, 168, 86, 243, 182, 169, 172, 251, 89, 122, 112, 73, 35>>,
         <<0, 100, 142, 251, 167, 146, 238, 111, 74, 196, 246, 106, 212, 55, 11, 33, 13,
           47, 181, 39, 109, 235, 225, 63, 198, 208, 63, 187, 156, 221, 148, 200, 222,
           128, 0, 0, 0>>>>,
       <<84, 220, 104, 55, 60, 165, 254, 121, 165, 248, 249, 183, 188, 176, 48, 218, 227,
         43, 246, 106, 230, 185, 124, 230, 34, 115, 188, 169, 11, 63, 181, 164, 227, 187,
         133, 18, 218, 176, 177, 115, 44, 219, 154, 148, 244, 42, 77, 5, 242, 254, 205,
         90, 111, 31, 41, 104, 57, 11, 104, 182, 52, 6, 222, 253>>>>,
     <<<<<<78, 74, 155, 114, 40, 202, 99, 8, 6, 143, 69, 33, 127, 35, 171, 34, 192, 56,
           87, 91, 89, 14, 183, 182, 118, 195, 98, 253, 86, 141, 13, 117>>,
         <<0, 213, 152, 149, 237, 43, 82, 249, 131, 253, 46, 82, 181, 64, 233, 131, 250,
           166, 21, 129, 252, 252, 146, 245, 108, 41, 68, 93, 2, 75, 167, 50, 82, 128, 0,
           0, 0>>>>,
       <<17, 233, 243, 124, 30, 166, 223, 5, 145, 165, 129, 227, 198, 124, 6, 147, 41,
         102, 64, 143, 182, 7, 100, 165, 133, 211, 210, 225, 9, 158, 56, 176, 172, 170,
         80, 169, 196, 144, 17, 154, 143, 250, 93, 165, 207, 247, 124, 188, 121, 101, 6,
         251, 25, 105, 174, 39, 183, 25, 147, 122, 237, 193, 38, 190>>>>,
     <<<<<<78, 74, 155, 114, 40, 202, 99, 8, 6, 143, 69, 33, 127, 35, 171, 34, 192, 56,
           87, 91, 89, 14, 183, 182, 118, 195, 98, 253, 86, 141, 13, 117>>,
         <<3, 34, 198, 55, 117, 227, 131, 19, 191, 0, 251, 74, 124, 108, 232, 177, 93, 3,
           186, 73, 88, 119, 34, 3, 31, 87, 188, 72, 232, 151, 94, 146, 216, 0, 0, 0, 0>>>>,
       <<212, 76, 149, 111, 44, 142, 20, 254, 51, 105, 43, 252, 86, 55, 240, 60, 217,
         201, 62, 100, 153, 178, 4, 83, 199, 150, 104, 77, 103, 125, 197, 158, 91, 187,
         222, 161, 37, 1, 44, 245, 8, 88, 6, 156, 240, 132, 222, 206, 50, 247, 253, 210,
         109, 7, 79, 70, 169, 238, 151, 76, 132, 100, 128, 175>>>>,
     <<<<<<80, 90, 132, 37, 89, 75, 139, 167, 58, 181, 114, 246, 199, 123, 88, 2, 194,
           154, 79, 251, 235, 248, 156, 2, 8, 153, 251, 154, 178, 234, 184, 198>>,
         <<2, 70, 12, 133, 70, 20, 185, 44, 153, 49, 51, 194, 208, 38, 186, 220, 208, 12,
           138, 76, 123, 117, 242, 203, 235, 24, 253, 40, 89, 224, 36, 46, 67, 0, 0, 0,
           0>>>>,
       <<203, 175, 216, 60, 45, 213, 141, 247, 241, 84, 32, 185, 157, 81, 23, 154, 168,
         56, 235, 171, 148, 47, 133, 193, 174, 161, 59, 110, 124, 237, 96, 5, 194, 210,
         23, 66, 166, 24, 201, 204, 200, 158, 126, 139, 94, 115, 76, 213, 85, 212, 174,
         48, 137, 120, 125, 166, 175, 2, 234, 192, 203, 247, 49, 65>>>>,
     <<<<<<80, 90, 132, 37, 89, 75, 139, 167, 58, 181, 114, 246, 199, 123, 88, 2, 194,
           154, 79, 251, 235, 248, 156, 2, 8, 153, 251, 154, 178, 234, 184, 198>>,
         <<2, 70, 12, 133, 70, 20, 185, 44, 153, 49, 51, 194, 208, 38, 186, 220, 208, 12,
           138, 76, 123, 117, 242, 203, 235, 24, 253, 40, 89, 224, 36, 46, 67, 0, 0, 0,
           1>>>>,
       <<170, 196, 89, 155, 22, 119, 12, 225, 48, 24, 235, 232, 238, 217, 151, 219, 111,
         109, 219, 199, 126, 230, 51, 48, 223, 51, 128, 122, 238, 81, 229, 148, 125, 0,
         30, 155, 8, 140, 112, 140, 172, 104, 158, 104, 199, 152, 123, 254, 149, 54, 184,
         242, 71, 121, 119, 0, 53, 137, 14, 163, 181, 160, 159, 1>>>>,
     <<<<<<80, 90, 132, 37, 89, 75, 139, 167, 58, 181, 114, 246, 199, 123, 88, 2, 194,
           154, 79, 251, 235, 248, 156, 2, 8, 153, 251, 154, 178, 234, 184, 198>>,
         <<2, 70, 12, 133, 70, 20, 185, 44, 153, 49, 51, 194, 208, 38, 186, 220, 208, 12,
           138, 76, 123, 117, 242, 203, 235, 24, 253, 40, 89, 224, 36, 46, 67, 0, 0, 0,
           2>>>>,
       <<106, 109, 131, 137, 53, 32, 155, 61, 186, 7, 205, 47, 20, 188, 70, 0, 194, 42,
         161, 200, 148, 248, 94, 163, 29, 148, 56, 83, 179, 116, 219, 85, 224, 50, 172,
         206, 70, 46, 22, 77, 223, 21, 152, 134, 121, 18, 10, 241, 225, 69, 7, 169, 28,
         202, 146, 237, 84, 190, 168, 205, 127, 244, 75, 31>>>>,
     <<<<<<84, 226, 110, 202, 26, 189, 45, 159, 90, 219, 46, 206, 62, 191, 114, 70, 145,
           18, 214, 222, 138, 66, 233, 101, 119, 242, 193, 247, 91, 173, 205, 152>>,
         <<3, 210, 11, 152, 35, 230, 3, 1, 10, 23, 123, 112, 97, 239, 30, 106, 229, 166,
           181, 2, 242, 235, 55, 114, 55, 241, 188, 61, 128, 40, 188, 185, 236, 0, 0, 0,
           0>>>>,
       <<65, 238, 217, 5, 116, 232, 216, 172, 101, 16, 243, 225, 248, 85, 247, 57, 231,
         118, 198, 124, 136, 208, 188, 130, 154, 179, 237, 238, 217, 217, 98, 133, 26,
         211, 58, 0, 41, 8, 157, 242, 225, 200, 239, 120, 115, 114, 197, 227, 94, 59,
         242, 248, 249, 0, 119, 250, 33, 152, 16, 73, 116, 224, 91, 41>>>>,
     <<<<<<84, 226, 110, 202, 26, 189, 45, 159, 90, 219, 46, 206, 62, 191, 114, 70, 145,
           18, 214, 222, 138, 66, 233, 101, 119, 242, 193, 247, 91, 173, 205, 152>>,
         <<3, 210, 11, 152, 35, 230, 3, 1, 10, 23, 123, 112, 97, 239, 30, 106, 229, 166,
           181, 2, 242, 235, 55, 114, 55, 241, 188, 61, 128, 40, 188, 185, 236, 0, 0, 0,
           1>>>>,
       <<144, 5, 41, 132, 178, 84, 225, 200, 6, 139, 178, 16, 55, 217, 234, 94, 56, 150,
         52, 4, 106, 140, 23, 253, 168, 118, 89, 20, 116, 183, 12, 79, 152, 153, 188, 55,
         153, 238, 79, 26, 235, 141, 224, 225, 75, 98, 46, 90, 22, 11, 122, 72, 252, 191,
         102, 95, 246, 122, 135, 249, 103, 176, 194, 204>>>>,
     <<<<<<84, 226, 110, 202, 26, 189, 45, 159, 90, 219, 46, 206, 62, 191, 114, 70, 145,
           18, 214, 222, 138, 66, 233, 101, 119, 242, 193, 247, 91, 173, 205, 152>>,
         <<3, 210, 11, 152, 35, 230, 3, 1, 10, 23, 123, 112, 97, 239, 30, 106, 229, 166,
           181, 2, 242, 235, 55, 114, 55, 241, 188, 61, 128, 40, 188, 185, 236, 0, 0, 0,
           2>>>>,
       <<25, 234, 207, 52, 84, 162, 19, 190, 58, 248, 62, 250, 58, 112, 130, 92, 218,
         108, 218, 11, 222, 171, 196, 34, 130, 30, 55, 232, 178, 88, 244, 121, 96, 53,
         52, 12, 168, 58, 134, 143, 4, 148, 42, 107, 109, 241, 120, 217, 231, 190, 51,
         185, 11, 78, 158, 39, 208, 80, 156, 120, 49, 119, 252, 77>>>>,
     <<<<<<87, 144, 55, 108, 43, 101, 105, 182, 177, 184, 171, 125, 59, 32, 118, 40, 24,
           26, 183, 83, 174, 234, 211, 80, 104, 81, 54, 54, 145, 60, 75, 143>>,
         <<2, 12, 102, 213, 42, 136, 187, 208, 0, 203, 84, 36, 119, 181, 42, 6, 108, 34,
           20, 39, 233, 82, 127, 57, 238, 132, 191, 79, 253, 33, 111, 124, 247, 0, 0, 0,
           0>>>>,
       <<198, 101, 97, 158, 109, 98, 182, 246, 226, 39, 51, 186, 235, 194, 17, 194, 132,
         253, 238, 105, 140, 213, 12, 165, 235, 94, 2, 30, 2, 130, 110, 243, 26, 188,
         118, 204, 248, 180, 4, 27, 234, 227, 222, 16, 165, 131, 53, 165, 137, 217, 142,
         96, 129, 101, 211, 107, 121, 45, 122, 15, 204, 17, 207, 14>>>>,
     <<<<<<87, 144, 55, 108, 43, 101, 105, 182, 177, 184, 171, 125, 59, 32, 118, 40, 24,
           26, 183, 83, 174, 234, 211, 80, 104, 81, 54, 54, 145, 60, 75, 143>>,
         <<2, 12, 102, 213, 42, 136, 187, 208, 0, 203, 84, 36, 119, 181, 42, 6, 108, 34,
           20, 39, 233, 82, 127, 57, 238, 132, 191, 79, 253, 33, 111, 124, 247, 0, 0, 0,
           1>>>>,
       <<37, 57, 244, 27, 221, 222, 7, 155, 187, 1, 1, 247, 133, 111, 61, 161, 42, 242,
         226, 234, 185, 85, 190, 78, 151, 51, 195, 38, 105, 148, 19, 151, 10, 60, 80,
         187, 106, 152, 50, 13, 62, 9, 142, 98, 45, 166, 21, 109, 76, 176, 164, 52, 19,
         50, 161, 111, 248, 63, 235, 211, 193, 250, 36, 62>>>>,
     <<<<<<87, 156, 137, 141, 236, 150, 90, 120, 73, 58, 254, 133, 57, 72, 192, 50, 254,
           104, 240, 1, 37, 148, 205, 207, 4, 78, 176, 217, 132, 219, 143, 178>>,
         <<0, 46, 215, 30, 204, 32, 27, 143, 6, 123, 223, 128, 211, 70, 69, 241, 111,
           251, 120, 170, 48, 154, 143, 108, 151, 192, 12, 155, 94, 137, 195, 119, 158,
           128, 0, 0, 0>>>>,
       <<15, 70, 18, 40, 18, 120, 36, 48, 88, 182, 234, 13, 101, 30, 89, 154, 98, 52,
         113, 47, 95, 233, 57, 8, 196, 244, 147, 104, 234, 127, 35, 203, 153, 221, 184,
         25, 61, 106, 70, 221, 152, 154, 6, 9, 236, 176, 236, 30, 21, 249, 225, 169, 89,
         148, 227, 83, 245, 93, 75, 60, 160, 11, 99, 211>>>>,
     <<<<<<89, 139, 69, 149, 234, 114, 128, 39, 86, 81, 158, 101, 167, 151, 35, 66, 49,
           215, 212, 241, 61, 101, 12, 176, 109, 177, 89, 87, 194, 54, 139, 27>>,
         <<0, 126, 86, 236, 245, 148, 61, 121, 225, 245, 248, 126, 17, 199, 104, 37, 61,
           127, 63, 207, 48, 174, 113, 51, 86, 17, 227, 102, 197, 120, 180, 86, 78, 128,
           0, 0, 44>>>>,
       <<182, 206, 169, 33, 201, 167, 219, 247, 0, 22, 117, 87, 161, 64, 178, 7, 38, 32,
         39, 86, 24, 121, 179, 171, 254, 177, 250, 6, 149, 170, 12, 57, 155, 199, 21,
         105, 40, 53, 75, 181, 240, 70, 69, 14, 43, 230, 26, 158, 20, 60, 210, 29, 121,
         55, 203, 103, 116, 26, 190, 149, 232, 3, 56, 22>>>>>>
    \o <<<<<<<<89, 139, 69, 149, 234, 114, 128, 39, 86, 81, 158, 101, 167, 151, 35, 66, 49,
           215, 212, 241, 61, 101, 12, 176, 109, 177, 89, 87, 194, 54, 139, 27>>,
         <<0, 126, 86, 236, 245, 148, 61, 121, 225, 245, 248, 126, 17, 199, 104, 37, 61,
           127, 63, 207, 48, 174, 113, 51, 86, 17, 227, 102, 197, 120, 180, 86, 78, 128,
           0, 0, 84>>>>,
       <<142, 210, 122, 162, 204, 93, 165, 216, 200, 176, 136, 25, 250, 73, 22, 130, 240,
         194, 174, 237, 208, 145, 171, 206, 91, 67, 247, 93, 146, 131, 158, 114, 63, 213,
         90, 248, 213, 233, 91, 151, 2, 147, 2, 241, 250, 135, 166, 241, 39, 98, 155,
         196, 211, 12, 94, 230, 174, 244, 21, 195, 119, 130, 13, 154>>>>,
     <<<<<<91, 187, 222, 161, 37, 1, 44, 245, 8, 88, 6, 156, 240, 132, 222, 206, 50, 247,
           253, 210, 109, 7, 79, 70, 169, 238, 151, 76, 132, 100, 128, 175>>,
         <<0, 169, 229, 43, 92, 87, 225, 14, 130, 48, 151, 126, 177, 151, 33, 116, 56,
           197, 47, 227, 122, 230, 252, 89, 132, 49, 8, 102, 194, 226, 238, 182, 175,
           128, 0, 0, 0>>>>,
       <<211, 55, 101, 154, 134, 12, 27, 19, 168, 31, 111, 43, 254, 211, 94, 215, 217,
         130, 100, 239, 33, 21, 187, 87, 23, 6, 253, 11, 246, 104, 205, 29, 247, 184,
         189, 146, 207, 53, 128, 51, 186, 77, 201, 228, 21, 224, 42, 87, 195, 175, 223,
         227, 148, 99, 130, 22, 101, 25, 182, 110, 97, 251, 155, 186>>>>,
     <<<<<<92, 72, 145, 125, 104, 56, 182, 102, 174, 177, 30, 172, 124, 79, 152, 248, 7,
           119, 155, 87, 199, 82, 46, 56, 80, 151, 25, 238, 177, 231, 165, 146>>,
         <<0, 193, 190, 175, 240, 196, 219, 152, 70, 112, 164, 12, 105, 194, 148, 123,
           157, 51, 205, 127, 110, 116, 156, 103, 225, 252, 181, 198, 17, 141, 218, 18,
           130, 128, 0, 0, 1>>>>,
       <<101, 148, 192, 96, 76, 107, 15, 208, 20, 222, 11, 61, 221, 209, 50, 187, 94, 58,
         34, 10, 39, 190, 109, 60, 242, 50, 230, 190, 21, 207, 39, 129, 173, 101, 238,
         44, 204, 248, 171, 182, 171, 89, 165, 131, 233, 76, 216, 205, 156, 104, 252,
         150, 172, 138, 151, 221, 159, 196, 30, 40, 237, 131, 221, 139>>>>,
     <<<<<<92, 72, 145, 125, 104, 56, 182, 102, 174, 177, 30, 172, 124, 79, 152, 248, 7,
           119, 155, 87, 199, 82, 46, 56, 80, 151, 25, 238, 177, 231, 165, 146>>,
         <<2, 234, 38, 73, 179, 81, 43, 154, 133, 154, 182, 88, 168, 94, 41, 137, 167,
           174, 57, 178, 81, 136, 119, 178, 220, 15, 43, 68, 183, 133, 213, 120, 141, 0,
           0, 0, 11>>>>,
       <<30, 224, 219, 123, 63, 18, 210, 58, 21, 207, 154, 30, 3, 24, 36, 196, 220, 78,
         217, 51, 61, 208, 86, 63, 71, 56, 172, 199, 210, 47, 145, 222, 129, 178, 50,
         107, 136, 221, 181, 172, 63, 213, 174, 94, 221, 182, 30, 210, 225, 73, 131, 32,
         95, 139, 50, 188, 63, 8, 139, 20, 114, 237, 215, 94>>>>,
     <<<<<<92, 72, 145, 125, 104, 56, 182, 102, 174, 177, 30, 172, 124, 79, 152, 248, 7,
           119, 155, 87, 199, 82, 46, 56, 80, 151, 25, 238, 177, 231, 165, 146>>,
         <<2, 234, 38, 73, 179, 81, 43, 154, 133, 154, 182, 88, 168, 94, 41, 137, 167,
           174, 57, 178, 81, 136, 119, 178, 220, 15, 43, 68, 183, 133, 213, 120, 141, 0,
           0, 0, 1>>>>,
       <<26, 251, 31, 223, 147, 252, 47, 35, 110, 90, 206, 135, 143, 219, 16, 63, 180,
         127, 213, 160, 196, 32, 230, 127, 52, 204, 135, 206, 144, 38, 72, 180, 236, 45,
         71, 70, 215, 147, 131, 135, 212, 183, 96, 188, 243, 138, 121, 34, 104, 104, 66,
         97, 141, 51, 209, 178, 161, 84, 74, 176, 66, 23, 126, 232>>>>,
     <<<<<<95, 177, 127, 50, 71, 17, 67, 88, 61, 162, 150, 179, 175, 121, 218, 26, 152,
           246, 61, 177, 35, 137, 160, 21, 10, 103, 97, 6, 32, 146, 90, 56>>,
         <<2, 54, 14, 158, 241, 17, 38, 225, 162, 120, 8, 206, 129, 32, 108, 38, 77, 233,
           50, 111, 143, 165, 164, 210, 198, 59, 242, 15, 35, 94, 207, 101, 11, 0, 0, 0,
           0>>>>,
       <<201, 176, 158, 20, 132, 202, 241, 193, 73, 157, 136, 225, 158, 236, 243, 104,
         226, 241, 59, 180, 194, 255, 166, 197, 244, 76, 114, 251, 143, 163, 201, 84,
         171, 82, 204, 232, 195, 220, 144, 92, 136, 95, 248, 170, 109, 51, 116, 223, 60,
         39, 163, 131, 99, 172, 211, 214, 35, 121, 27, 69, 1, 117, 119, 237>>>>,
     <<<<<<95, 177, 127, 50, 71, 17, 67, 88, 61, 162, 150, 179, 175, 121, 218, 26, 152,
           246, 61, 177, 35, 137, 160, 21, 10, 103, 97, 6, 32, 146, 90, 56>>,
         <<2, 54, 14, 158, 241, 17, 38, 225, 162, 120, 8, 206, 129, 32, 108, 38, 77, 233,
           50, 111, 143, 165, 164, 210, 198, 59, 242, 15, 35, 94, 207, 101, 11, 0, 0, 0,
           1>>>>,
       <<179, 124, 153, 87, 197, 30, 255, 95, 206, 211, 39, 29, 130, 81, 197, 219, 101,
         201, 186, 118, 28, 146, 2, 183, 193, 143, 69, 224, 97, 11, 166, 12, 159, 86,
         232, 47, 219, 149, 191, 237, 0, 4, 2, 170, 142, 112, 49, 80, 220, 158, 77, 73,
         62, 212, 233, 171, 211, 172, 106, 198, 148, 55, 97, 1>>>>,
     <<<<<<95, 177, 127, 50, 71, 17, 67, 88, 61, 162, 150, 179, 175, 121, 218, 26, 152,
           246, 61, 177, 35, 137, 160, 21, 10, 103, 97, 6, 32, 146, 90, 56>>,
         <<2, 54, 14, 158, 241, 17, 38, 225, 162, 120, 8, 206, 129, 32, 108, 38, 77, 233,
           50, 111, 143, 165, 164, 210, 198, 59, 242, 15, 35, 94, 207, 101, 11, 0, 0, 0,
           2>>>>,
       <<3, 169, 98, 17, 121, 182, 207, 136, 181, 105, 94, 215, 164, 28, 88, 180, 211,
         128, 213, 105, 148, 42, 90, 242, 82, 211, 161, 108, 173, 49, 172, 148, 67, 138,
         173, 97, 99, 63, 72, 34, 123, 70, 156, 200, 191, 148, 108, 41, 18, 227, 158,
         253, 159, 108, 211, 11, 43, 137, 170, 163, 231, 191, 94, 58>>>>,
     <<<<<<99, 212, 66, 116, 82, 136, 104, 23, 8, 215, 99, 111, 120, 105, 21, 35, 181,
           160, 246, 149, 73, 103, 67, 149, 78, 135, 225, 49, 255, 4, 232, 211>>,
         <<3, 243, 121, 19, 172, 210, 135, 232, 205, 116, 21, 85, 158, 179, 118, 33, 188,
           11, 60, 85, 134, 78, 93, 249, 125, 138, 42, 118, 14, 46, 125, 144, 217, 0, 0,
           0, 0>>>>,
       <<177, 58, 238, 106, 168, 223, 80, 28, 62, 209, 111, 65, 87, 125, 51, 139, 81, 89,
         158, 137, 232, 138, 110, 25, 225, 8, 123, 179, 53, 80, 138, 157, 31, 37, 166,
         111, 46, 96, 127, 143, 255, 114, 248, 173, 82, 253, 23, 158, 65, 185, 200, 37,
         46, 178, 104, 61, 222, 137, 185, 137, 83, 221, 21, 93>>>>,
     <<<<<<99, 212, 66, 116, 82, 136, 104, 23, 8, 215, 99, 111, 120, 105, 21, 35, 181,
           160, 246, 149, 73, 103, 67, 149, 78, 135, 225, 49, 255, 4, 232, 211>>,
         <<3, 243, 121, 19, 172, 210, 135, 232, 205, 116, 21, 85, 158, 179, 118, 33, 188,
           11, 60, 85, 134, 78, 93, 249, 125, 138, 42, 118, 14, 46, 125, 144, 217, 0, 0,
           0, 1>>>>,
       <<167, 33, 193, 145, 231, 117, 96, 124, 70, 142, 59, 154, 79, 152, 143, 142, 132,
         244, 228, 125, 213, 250, 138, 133, 34, 218, 190, 91, 218, 240, 66, 88, 92, 51,
         34, 186, 25, 183, 71, 225, 170, 27, 26, 5, 58, 190, 239, 152, 121, 139, 199,
         177, 207, 43, 109, 200, 18, 36, 33, 16, 121, 145, 50, 65>>>>,
     <<<<<<99, 212, 66, 116, 82, 136, 104, 23, 8, 215, 99, 111, 120, 105, 21, 35, 181,
           160, 246, 149, 73, 103, 67, 149, 78, 135, 225, 49, 255, 4, 232, 211>>,
         <<3, 243, 121, 19, 172, 210, 135, 232, 205, 116, 21, 85, 158, 179, 118, 33, 188,
           11, 60, 85, 134, 78, 93, 249, 125, 138, 42, 118, 14, 46, 125, 144, 217, 0, 0,
           0, 2>>>>,
       <<30, 96, 220, 227, 97, 7, 38, 84, 77, 96, 214, 225, 160, 61, 199, 225, 54, 198,
         57, 134, 200, 84, 174, 201, 46, 170, 234, 132, 190, 193, 140, 43, 18, 236, 146,
         156, 42, 249, 71, 161, 28, 139, 150, 8, 235, 120, 231, 90, 155, 95, 87, 102, 55,
         99, 46, 205, 161, 247, 208, 116, 68, 100, 213, 95>>>>>>

KnownPublicKeys ==
    <<<<<<0, 0, 0, 0, 0, 0, 0, 0, 0, 0, 0, 0, 0, 0, 0, 0, 0, 0, 0, 0, 0, 0, 0, 0, 0, 0, 0,
         0, 0, 0, 0, 5>>,
       <<2, 47, 139, 222, 77, 26, 7, 32, 147, 85, 180, 167, 37, 10, 92, 81, 40, 232, 139,
         132, 189, 220, 97, 154, 183, 203, 168, 213, 105, 178, 64, 239, 228>>>>,
     <<<<100, 162, 120, 29, 50, 156, 212, 130, 9, 169, 78, 214, 88, 101, 58, 6, 22, 12,
         196, 119, 6, 230, 150, 58, 12, 149, 196, 172, 32, 186, 50, 35>>,
       <<3, 96, 231, 116, 227, 39, 78, 7, 71, 9, 140, 22, 132, 26, 220, 195, 111, 101,
         223, 61, 102, 105, 226, 40, 149, 19, 84, 191, 155, 100, 255, 200, 221>>>>,
     <<<<103, 8, 73, 74, 158, 68, 85, 28, 73, 143, 213, 30, 81, 35, 236, 130, 124, 80,
         126, 49, 4, 195, 88, 244, 93, 23, 56, 77, 18, 114, 161, 118>>,
       <<2, 60, 120, 190, 26, 109, 93, 136, 54, 72, 72, 37, 46, 241, 73, 19, 129, 161,
         152, 26, 125, 20, 205, 34, 23, 181, 218, 60, 46, 74, 244, 138, 45>>>>,
     <<<<106, 151, 56, 170, 86, 13, 159, 31, 7, 191, 151, 199, 48, 34, 19, 100, 250, 247,
         118, 251, 215, 101, 243, 179, 72, 97, 188, 50, 15, 42, 104, 213>>,
       <<3, 221, 74, 78, 103, 146, 107, 123, 63, 248, 199, 65, 54, 204, 32, 30, 237, 74,
         185, 143, 123, 106, 244, 217, 163, 7, 146, 166, 166, 220, 247, 41, 14>>>>,
     <<<<106, 63, 46, 82, 225, 74, 156, 183, 126, 194, 34, 157, 108, 132, 33, 86, 128,
         197, 75, 65, 245, 105, 110, 38, 219, 187, 235, 111, 218, 12, 29, 236>>,
       <<3, 26, 211, 99, 174, 184, 255, 199, 141, 90, 18, 42, 33, 156, 208, 175, 210,
         189, 250, 123, 221, 11, 131, 216, 20, 221, 206, 247, 198, 116, 247, 116, 155>>>>,
     <<<<11, 2, 64, 99, 185, 195, 189, 130, 173, 152, 127, 206, 15, 137, 53, 190, 15, 55,
         168, 107, 16, 11, 205, 248, 252, 153, 225, 45, 102, 163, 224, 71>>,
       <<3, 53, 126, 183, 56, 161, 205, 49, 217, 219, 103, 127, 33, 181, 205, 128, 127,
         188, 4, 138, 212, 118, 179, 222, 172, 113, 59, 78, 155, 244, 147, 187, 239>>>>,
     <<<<11, 54, 141, 5, 73, 97, 239, 180, 73, 235, 201, 123, 231, 202, 223, 90, 12, 23,
         16, 241, 47, 121, 25, 241, 164, 68, 204, 5, 197, 198, 53, 207>>,
       <<3, 179, 66, 183, 169, 134, 158, 66, 85, 205, 88, 93, 237, 220, 138, 105, 51, 54,
         177, 244, 88, 24, 90, 249, 47, 188, 216, 155, 57, 108, 105, 179, 212>>>>,
     <<<<110, 114, 241, 155, 159, 59, 84, 140, 103, 100, 174, 79, 159, 191, 67, 36, 221,
         81, 120, 125, 42, 195, 75, 216, 240, 86, 138, 22, 75, 90, 77, 244>>,
       <<2, 187, 51, 94, 99, 206, 188, 126, 129, 116, 250, 93, 203, 58, 200, 43, 212,
         205, 214, 150, 37, 130, 122, 228, 59, 48, 105, 44, 226, 77, 69, 37, 209>>>>,
     <<<<113, 17, 26, 227, 122, 92, 96, 104, 53, 254, 219, 186, 86, 125, 203, 37, 162,
         33, 248, 208, 104, 189, 236, 245, 112, 71, 15, 162, 171, 94, 68, 11>>,
       <<2, 133, 192, 8, 75, 187, 10, 99, 225, 21, 112, 155, 169, 94, 192, 88, 164, 147,
         239, 33, 108, 227, 179, 249, 6, 252, 170, 90, 166, 111, 69, 241, 129>>>>,
     <<<<115, 57, 220, 27, 237, 148, 119, 56, 163, 40, 93, 185, 245, 81, 24, 207, 102,
         189, 186, 136, 93, 72, 37, 161, 195, 169, 165, 154, 129, 127, 139, 123>>,
       <<3, 222, 190, 22, 245, 151, 254, 16, 8, 116, 4, 229, 66, 50, 178, 236, 161, 45,
         39, 52, 46, 5, 2, 33, 171, 133, 77, 151, 220, 230, 130, 35, 8>>>>,
     <<<<116, 60, 232, 229, 126, 55, 98, 7, 221, 138, 146, 184, 129, 202, 19, 81, 77, 92,
         132, 81, 76, 245, 167, 184, 110, 174, 118, 96, 248, 211, 196, 200>>,
       <<2, 75, 108, 96, 29, 92, 244, 114, 31, 232, 114, 230, 254, 46, 177, 166, 81, 0,
         47, 210, 217, 254, 37, 225, 160, 43, 69, 47, 9, 51, 190, 188, 168>>>>,
     <<<<117, 219, 61, 94, 78, 180, 44, 71, 85, 177, 160, 92, 3, 75, 161, 164, 157, 157,
         95, 115, 64, 12, 253, 60, 250, 154, 215, 206, 13, 157, 19, 102>>,
       <<2, 232, 216, 244, 145, 152, 103, 36, 94, 2, 133, 96, 6, 91, 106, 239, 46, 11,
         45, 216, 19, 66, 181, 227, 131, 252, 182, 245, 233, 158, 53, 106, 117>>>>,
     <<<<118, 66, 4, 49, 238, 55, 21, 33, 201, 55, 15, 173, 250, 74, 116, 134, 245, 53,
         132, 72, 89, 47, 137, 220, 245, 16, 202, 195, 53, 158, 184, 41>>,
       <<3, 47, 52, 99, 161, 248, 205, 238, 9, 100, 216, 50, 159, 161, 167, 237, 61, 0,
         154, 238, 92, 241, 33, 155, 21, 109, 200, 209, 213, 88, 158, 65, 55>>>>,
     <<<<119, 46, 27, 106, 215, 187, 180, 213, 184, 77, 161, 220, 77, 130, 51, 163, 78,
         157, 193, 236, 50, 40, 84, 227, 17, 210, 182, 162, 206, 76, 95, 23>>,
       <<2, 207, 251, 63, 140, 132, 246, 86, 53, 135, 30, 113, 158, 142, 144, 112, 89,
         251, 84, 124, 76, 229, 243, 142, 50, 134, 65, 175, 21, 104, 248, 69, 75>>>>,
     <<<<120, 131, 73, 133, 250, 65, 173, 252, 179, 177, 38, 67, 118, 165, 115, 4, 68,
         56, 132, 62, 92, 247, 46, 206, 9, 159, 245, 73, 105, 13, 92, 168>>,
       <<2, 37, 134, 170, 173, 128, 193, 110, 217, 83, 234, 123, 193, 251, 159, 51, 21,
         250, 180, 183, 11, 21, 39, 24, 206, 214, 253, 254, 24, 201, 165, 164, 170>>>>,
     <<<<120, 223, 24, 29, 141, 116, 33, 106, 92, 19, 152, 104, 155, 53, 170, 218, 88,
         204, 66, 229, 240, 86, 182, 18, 108, 28, 79, 110, 35, 98, 148, 199>>,
       <<3, 73, 139, 58, 200, 232, 130, 197, 214, 147, 84, 12, 73, 173, 242, 43, 122, 27,
         153, 193, 187, 128, 71, 150, 103, 57, 191, 232, 205, 235, 39, 46, 100>>>>>>
    \o <<<<<<121, 20, 203, 81, 35, 184, 209, 58, 101, 35, 125, 113, 8, 85, 158, 2, 153, 154,
         78, 39, 132, 106, 14, 123, 73, 39, 173, 187, 193, 70, 249, 252>>,
       <<2, 141, 92, 42, 28, 69, 92, 38, 4, 104, 225, 15, 141, 211, 34, 160, 121, 178,
         249, 14, 1, 226, 36, 179, 120, 56, 51, 241, 150, 36, 130, 70, 209>>>>,
     <<<<123, 2, 18, 167, 110, 201, 183, 190, 129, 187, 139, 255, 225, 38, 20, 234, 233,
         106, 243, 139, 109, 183, 231, 175, 148, 228, 105, 139, 230, 216, 169, 190>>,
       <<3, 20, 85, 151, 44, 178, 139, 37, 65, 245, 196, 236, 66, 174, 226, 132, 212,
         130, 17, 249, 40, 135, 124, 36, 72, 224, 136, 148, 154, 38, 230, 43, 85>>>>,
     <<<<123, 59, 248, 193, 229, 45, 182, 105, 150, 87, 123, 20, 117, 60, 40, 253, 107,
         2, 69, 19, 71, 143, 188, 234, 31, 79, 117, 204, 171, 244, 177, 239>>,
       <<3, 68, 59, 162, 177, 16, 73, 19, 52, 88, 42, 110, 192, 203, 201, 235, 133, 188,
         69, 135, 211, 192, 194, 191, 178, 99, 228, 219, 59, 15, 158, 29, 251>>>>,
     <<<<124, 84, 22, 162, 140, 51, 160, 52, 59, 98, 103, 163, 66, 188, 34, 53, 188, 181,
         225, 193, 235, 128, 255, 12, 113, 138, 128, 21, 181, 96, 199, 144>>,
       <<2, 54, 14, 158, 241, 17, 38, 225, 162, 120, 8, 206, 129, 32, 108, 38, 77, 233,
         50, 111, 143, 165, 164, 210, 198, 59, 242, 15, 35, 94, 207, 101, 11>>>>,
     <<<<125, 162, 220, 185, 253, 51, 163, 40, 204, 150, 85, 39, 109, 162, 19, 216, 235,
         178, 247, 247, 115, 19, 107, 23, 237, 34, 149, 89, 143, 227, 84, 167>>,
       <<3, 255, 154, 129, 255, 92, 173, 176, 139, 160, 45, 183, 107, 223, 154, 60, 158,
         226, 118, 102, 2, 23, 75, 52, 228, 55, 4, 36, 244, 66, 17, 123, 244>>>>,
     <<<<125, 28, 144, 246, 221, 237, 41, 149, 216, 182, 237, 221, 149, 244, 211, 17,
         228, 3, 107, 131, 88, 201, 116, 159, 136, 61, 5, 66, 9, 33, 66, 139>>,
       <<2, 238, 160, 210, 206, 216, 180, 151, 95, 39, 114, 122, 234, 27, 97, 162, 201,
         128, 213, 165, 214, 252, 25, 205, 180, 72, 217, 101, 100, 43, 243, 52, 174>>>>,
     <<<<126, 113, 187, 243, 165, 89, 127, 165, 181, 145, 244, 149, 23, 138, 173, 153,
         58, 155, 27, 195, 134, 29, 84, 198, 100, 105, 57, 109, 217, 155, 28, 201>>,
       <<3, 164, 135, 248, 143, 103, 99, 123, 16, 27, 3, 42, 187, 56, 254, 23, 198, 236,
         236, 49, 4, 203, 187, 95, 234, 233, 102, 47, 4, 130, 41, 176, 249>>>>,
     <<<<126, 75, 53, 84, 206, 174, 48, 92, 72, 147, 139, 6, 36, 209, 255, 103, 4, 125,
         157, 229, 146, 227, 60, 5, 72, 167, 90, 0, 36, 144, 228, 106>>,
       <<2, 203, 81, 185, 133, 19, 98, 55, 68, 131, 164, 145, 96, 181, 139, 240, 252,
         118, 243, 36, 180, 90, 130, 114, 168, 232, 37, 176, 107, 94, 207, 58, 90>>>>,
     <<<<127, 116, 58, 58, 74, 228, 233, 217, 76, 158, 255, 219, 233, 167, 114, 225, 53,
         132, 163, 13, 162, 46, 118, 81, 151, 221, 253, 128, 105, 71, 245, 122>>,
       <<3, 116, 19, 27, 29, 119, 85, 191, 3, 90, 206, 57, 4, 73, 173, 120, 253, 14, 223,
         68, 102, 167, 10, 200, 229, 156, 245, 191, 240, 52, 99, 254, 185>>>>,
     <<<<127, 253, 120, 180, 5, 234, 111, 188, 240, 203, 198, 122, 230, 216, 122, 234,
         144, 54, 183, 43, 127, 171, 89, 254, 196, 94, 33, 130, 98, 146, 116, 36>>,
       <<3, 143, 254, 169, 54, 178, 223, 118, 191, 49, 34, 14, 189, 86, 163, 75, 48, 198,
         184, 111, 64, 211, 189, 146, 102, 78, 47, 95, 152, 72, 141, 221, 250>>>>,
     <<<<128, 210, 47, 6, 196, 193, 166, 125, 110, 59, 127, 11, 208, 17, 169, 94, 105,
         99, 40, 180, 139, 87, 150, 243, 4, 49, 12, 64, 134, 238, 42, 128>>,
       <<2, 189, 63, 92, 148, 124, 73, 190, 164, 254, 202, 126, 215, 84, 98, 113, 53,
         139, 88, 51, 111, 249, 179, 21, 61, 72, 46, 42, 228, 136, 39, 223, 163>>>>,
     <<<<13, 217, 34, 72, 29, 181, 176, 59, 111, 90, 103, 140, 105, 228, 165, 35, 107,
         220, 68, 246, 62, 76, 250, 193, 105, 232, 60, 245, 208, 230, 47, 11>>,
       <<2, 249, 15, 90, 167, 241, 60, 208, 2, 1, 195, 45, 47, 31, 228, 146, 44, 235, 13,
         72, 227, 205, 251, 223, 94, 170, 94, 71, 134, 60, 141, 70, 245>>>>,
     <<<<13, 41, 103, 152, 96, 155, 31, 186, 190, 169, 6, 43, 193, 177, 59, 193, 181, 83,
         161, 55, 207, 186, 62, 232, 173, 84, 255, 150, 59, 1, 179, 127>>,
       <<3, 44, 0, 17, 131, 58, 176, 187, 20, 50, 201, 73, 123, 3, 46, 38, 249, 46, 49,
         99, 123, 173, 225, 207, 240, 44, 237, 126, 90, 28, 43, 80, 135>>>>,
     <<<<131, 189, 165, 199, 173, 209, 126, 249, 187, 193, 240, 51, 145, 145, 63, 230,
         204, 148, 122, 161, 140, 74, 52, 54, 7, 114, 78, 129, 92, 131, 238, 183>>,
       <<3, 134, 184, 101, 181, 43, 117, 61, 10, 132, 208, 155, 194, 0, 99, 250, 181,
         216, 69, 62, 195, 60, 33, 93, 64, 25, 165, 128, 28, 156, 100, 56, 185>>>>,
     <<<<131, 244, 185, 222, 45, 160, 31, 53, 227, 174, 151, 167, 209, 211, 52, 91, 216,
         36, 58, 115, 172, 225, 18, 81, 154, 210, 110, 57, 199, 154, 232, 47>>,
       <<2, 23, 116, 181, 147, 57, 128, 135, 155, 196, 62, 84, 14, 29, 124, 103, 157,
         240, 71, 69, 40, 134, 205, 152, 10, 204, 179, 31, 42, 80, 14, 92, 162>>>>,
     <<<<132, 29, 247, 58, 208, 191, 109, 217, 87, 56, 145, 137, 145, 204, 64, 116, 196,
         76, 202, 14, 131, 3, 27, 10, 206, 219, 81, 178, 70, 146, 241, 86>>,
       <<2, 102, 175, 186, 62, 128, 115, 12, 249, 213, 188, 57, 138, 37, 99, 139, 172,
         101, 3, 208, 145, 101, 69, 112, 119, 165, 17, 0, 114, 121, 61, 4, 68>>>>>>
    \o <<<<<<135, 9, 77, 101, 198, 186, 113, 123, 62, 125, 130, 209, 147, 236, 160, 118, 46,
         122, 190, 223, 100, 165, 206, 251, 64, 241, 72, 180, 155, 32, 164, 186>>,
       <<3, 232, 149, 0, 113, 92, 79, 89, 90, 39, 32, 30, 5, 43, 164, 232, 254, 229, 197,
         233, 99, 197, 239, 21, 19, 98, 152, 128, 184, 210, 148, 200, 30>>>>,
     <<<<137, 58, 163, 25, 140, 51, 31, 129, 108, 150, 150, 84, 45, 18, 96, 165, 133,
         142, 209, 113, 121, 31, 16, 245, 26, 251, 109, 211, 104, 132, 198, 144>>,
       <<2, 220, 246, 33, 151, 20, 132, 116, 97, 42, 63, 255, 25, 118, 166, 33, 40, 178,
         166, 130, 143, 249, 193, 22, 3, 129, 42, 163, 158, 208, 82, 248, 213>>>>,
     <<<<138, 82, 52, 130, 32, 145, 6, 243, 221, 195, 203, 15, 245, 84, 220, 120, 254,
         22, 210, 108, 61, 229, 118, 77, 194, 33, 72, 200, 216, 202, 103, 141>>,
       <<3, 3, 35, 229, 9, 232, 134, 125, 61, 128, 58, 206, 180, 30, 114, 92, 253, 171,
         162, 58, 252, 206, 138, 86, 252, 186, 166, 164, 2, 33, 192, 184, 212>>>>,
     <<<<14, 205, 1, 180, 73, 62, 139, 140, 29, 8, 45, 47, 51, 163, 58, 102, 29, 47, 199,
         140, 21, 43, 134, 150, 6, 227, 218, 246, 5, 155, 204, 47>>,
       <<3, 46, 190, 103, 98, 93, 141, 125, 102, 213, 197, 63, 237, 52, 227, 249, 75,
         155, 222, 157, 5, 86, 91, 199, 80, 93, 13, 23, 142, 152, 70, 5, 189>>>>,
     <<<<142, 14, 173, 109, 169, 29, 82, 197, 246, 14, 40, 189, 200, 186, 93, 233, 30,
         124, 135, 253, 177, 232, 130, 75, 242, 211, 16, 61, 108, 99, 74, 134>>,
       <<2, 206, 190, 206, 164, 197, 31, 95, 253, 255, 84, 114, 118, 251, 157, 61, 109,
         117, 143, 107, 90, 37, 106, 225, 50, 70, 154, 108, 136, 42, 216, 39, 77>>>>,
     <<<<143, 158, 49, 60, 204, 156, 104, 110, 204, 23, 69, 214, 228, 11, 174, 50, 200,
         143, 152, 35, 158, 151, 38, 211, 112, 9, 51, 68, 121, 211, 41, 94>>,
       <<3, 114, 103, 88, 39, 62, 177, 105, 198, 2, 131, 116, 130, 124, 225, 4, 38, 22,
         131, 26, 5, 232, 56, 24, 27, 195, 46, 191, 60, 160, 56, 202, 204>>>>,
     <<<<148, 232, 67, 221, 76, 78, 16, 102, 174, 103, 31, 238, 233, 154, 87, 250, 48,
         174, 11, 72, 56, 87, 54, 249, 186, 241, 136, 21, 126, 247, 56, 110>>,
       <<3, 99, 113, 228, 17, 214, 200, 170, 12, 240, 69, 165, 20, 200, 215, 233, 113,
         156, 25, 52, 201, 45, 120, 55, 167, 224, 152, 240, 28, 34, 229, 43, 91>>>>,
     <<<<15, 104, 140, 93, 75, 167, 10, 251, 168, 105, 36, 17, 78, 144, 85, 130, 52, 130,
         88, 15, 139, 173, 98, 211, 46, 235, 0, 190, 159, 76, 123, 80>>,
       <<2, 107, 110, 173, 177, 10, 210, 183, 135, 231, 15, 184, 178, 157, 39, 10, 198,
         166, 29, 52, 229, 167, 107, 99, 189, 149, 60, 187, 159, 163, 29, 94, 34>>>>,
     <<<<151, 112, 187, 86, 237, 120, 149, 255, 114, 135, 78, 110, 155, 240, 27, 129,
         127, 189, 247, 38, 102, 199, 72, 105, 92, 198, 124, 98, 209, 198, 132, 223>>,
       <<2, 86, 70, 243, 111, 176, 39, 124, 94, 65, 230, 24, 107, 79, 131, 26, 59, 48,
         111, 187, 197, 126, 107, 43, 39, 183, 191, 191, 115, 123, 139, 65, 49>>>>,
     <<<<152, 26, 176, 145, 148, 163, 218, 151, 24, 90, 228, 15, 111, 5, 46, 108, 7, 175,
         123, 28, 143, 21, 255, 11, 12, 103, 196, 254, 159, 118, 74, 93>>,
       <<2, 134, 205, 31, 120, 128, 13, 61, 203, 67, 43, 197, 99, 246, 205, 165, 144,
         182, 217, 48, 116, 209, 193, 208, 179, 208, 175, 194, 7, 137, 247, 147, 61>>>>,
     <<<<152, 39, 218, 70, 106, 135, 66, 101, 238, 81, 92, 100, 208, 159, 1, 229, 234,
         225, 66, 9, 196, 120, 101, 224, 177, 0, 205, 148, 198, 195, 146, 203>>,
       <<3, 194, 1, 216, 233, 183, 5, 93, 72, 242, 49, 72, 59, 89, 132, 188, 223, 75,
         133, 33, 49, 13, 65, 193, 204, 241, 132, 217, 50, 58, 79, 118, 51>>>>,
     <<<<155, 219, 247, 238, 238, 43, 2, 80, 189, 237, 26, 13, 209, 2, 240, 183, 246, 86,
         48, 226, 230, 192, 46, 79, 178, 245, 221, 25, 220, 145, 135, 110>>,
       <<2, 76, 179, 236, 199, 237, 10, 208, 222, 159, 250, 45, 167, 162, 41, 253, 205,
         17, 215, 204, 182, 101, 28, 19, 166, 224, 72, 194, 30, 107, 153, 233, 150>>>>,
     <<<<157, 96, 83, 234, 111, 221, 223, 54, 170, 182, 7, 95, 87, 76, 183, 102, 64, 105,
         133, 4, 80, 190, 6, 4, 46, 169, 69, 98, 59, 223, 28, 33>>,
       <<2, 37, 92, 1, 168, 172, 14, 40, 16, 154, 160, 27, 242, 172, 150, 1, 207, 241,
         245, 211, 81, 81, 2, 183, 208, 108, 123, 27, 147, 106, 9, 22, 79>>>>,
     <<<<158, 61, 22, 126, 197, 58, 29, 139, 39, 130, 27, 27, 108, 163, 40, 66, 75, 189,
         178, 244, 41, 90, 41, 207, 225, 10, 33, 26, 238, 110, 4, 113>>,
       <<2, 12, 102, 213, 42, 136, 187, 208, 0, 203, 84, 36, 119, 181, 42, 6, 108, 34,
         20, 39, 233, 82, 127, 57, 238, 132, 191, 79, 253, 33, 111, 124, 247>>>>,
     <<<<159, 133, 50, 85, 35, 60, 249, 105, 210, 212, 57, 180, 63, 83, 210, 106, 42,
         237, 250, 64, 78, 187, 171, 121, 50, 110, 215, 144, 49, 43, 42, 253>>,
       <<2, 209, 116, 9, 164, 223, 76, 132, 184, 247, 183, 139, 120, 135, 183, 132, 126,
         40, 66, 29, 246, 215, 171, 198, 9, 64, 19, 237, 90, 79, 132, 206, 245>>>>,
     <<<<159, 36, 120, 110, 73, 136, 94, 166, 21, 92, 111, 62, 246, 146, 84, 244, 132,
         123, 42, 104, 248, 11, 214, 95, 39, 17, 161, 48, 168, 249, 221, 97>>,
       <<3, 224, 160, 61, 6, 7, 24, 231, 242, 50, 101, 220, 30, 164, 31, 222, 40, 126,
         31, 66, 20, 214, 121, 92, 235, 249, 68, 39, 59, 101, 165, 250, 195>>>>>>
    \o <<<<<<16, 45, 152, 107, 61, 1, 1, 176, 131, 108, 140, 165, 182, 92, 161, 92, 54, 127,
         3, 223, 31, 165, 231, 211, 200, 63, 129, 191, 27, 211, 106, 144>>,
       <<2, 213, 127, 153, 50, 53, 182, 35, 78, 116, 108, 100, 184, 153, 185, 29, 162,
         36, 211, 243, 110, 235, 154, 169, 191, 209, 35, 51, 156, 40, 116, 240, 173>>>>,
     <<<<16, 60, 85, 240, 126, 175, 132, 79, 112, 112, 2, 74, 14, 124, 18, 98, 195, 184,
         54, 80, 223, 83, 67, 226, 130, 201, 247, 154, 40, 105, 140, 6>>,
       <<2, 108, 186, 241, 54, 203, 244, 166, 16, 58, 252, 4, 164, 61, 68, 156, 224, 89,
         54, 157, 52, 193, 13, 33, 86, 109, 22, 246, 72, 145, 74, 129, 155>>>>,
     <<<<160, 89, 220, 53, 130, 204, 217, 168, 78, 101, 197, 66, 59, 232, 253, 222, 232,
         134, 186, 120, 23, 73, 71, 157, 65, 15, 11, 19, 91, 228, 205, 20>>,
       <<3, 74, 55, 231, 70, 158, 122, 213, 159, 207, 81, 0, 5, 50, 89, 201, 40, 191, 64,
         207, 159, 191, 86, 16, 134, 59, 110, 232, 190, 146, 229, 191, 245>>>>,
     <<<<167, 204, 109, 104, 119, 114, 26, 63, 159, 80, 208, 3, 141, 173, 4, 183, 141,
         148, 123, 242, 36, 69, 153, 156, 216, 103, 244, 152, 239, 241, 139, 77>>,
       <<3, 188, 146, 189, 21, 106, 87, 225, 26, 170, 163, 70, 29, 64, 67, 146, 110, 100,
         78, 71, 248, 235, 20, 149, 198, 190, 221, 82, 20, 230, 13, 21, 96>>>>,
     <<<<168, 200, 139, 110, 140, 231, 8, 55, 68, 244, 201, 60, 56, 177, 178, 244, 141,
         254, 55, 29, 66, 92, 108, 143, 68, 246, 75, 53, 244, 228, 239, 106>>,
       <<3, 78, 232, 217, 105, 138, 40, 198, 172, 42, 194, 68, 234, 92, 211, 148, 50, 12,
         17, 142, 88, 202, 8, 196, 94, 105, 150, 51, 146, 254, 205, 196, 165>>>>,
     <<<<168, 41, 89, 173, 32, 255, 255, 27, 228, 141, 229, 43, 154, 250, 84, 254, 60,
         38, 249, 141, 88, 48, 15, 203, 91, 193, 94, 147, 248, 165, 111, 68>>,
       <<3, 77, 163, 75, 35, 5, 83, 108, 224, 107, 66, 11, 133, 130, 81, 174, 128, 137,
         1, 96, 252, 4, 132, 84, 211, 251, 208, 171, 200, 65, 133, 153, 254>>>>,
     <<<<169, 197, 141, 231, 145, 218, 199, 178, 127, 105, 182, 163, 149, 150, 72, 210,
         65, 115, 162, 194, 233, 40, 96, 231, 73, 118, 10, 57, 190, 203, 107, 44>>,
       <<3, 100, 186, 251, 140, 63, 1, 224, 63, 202, 77, 109, 216, 160, 35, 113, 250, 7,
         168, 68, 37, 13, 110, 241, 141, 174, 141, 164, 27, 82, 199, 227, 244>>>>,
     <<<<170, 76, 220, 240, 191, 85, 89, 151, 146, 104, 5, 247, 14, 85, 211, 198, 193,
         93, 184, 224, 29, 101, 231, 73, 201, 242, 130, 129, 219, 152, 96, 168>>,
       <<2, 99, 21, 37, 198, 49, 177, 50, 62, 96, 62, 7, 115, 180, 49, 38, 207, 111, 62,
         206, 246, 22, 254, 95, 255, 90, 41, 155, 55, 175, 224, 58, 134>>>>,
     <<<<171, 33, 216, 35, 224, 79, 59, 55, 246, 12, 128, 73, 56, 96, 98, 246, 128, 175,
         252, 127, 135, 146, 26, 181, 199, 169, 50, 122, 71, 103, 13, 42>>,
       <<2, 250, 156, 178, 124, 49, 238, 34, 133, 61, 150, 162, 233, 232, 144, 236, 255,
         156, 196, 237, 255, 189, 164, 197, 191, 151, 134, 42, 102, 91, 64, 239, 171>>>>,
     <<<<172, 135, 132, 74, 173, 59, 4, 100, 253, 238, 172, 126, 45, 152, 202, 117, 246,
         144, 145, 246, 51, 115, 75, 1, 92, 35, 16, 18, 151, 201, 176, 234>>,
       <<3, 201, 56, 198, 128, 192, 192, 202, 218, 202, 246, 38, 60, 235, 16, 9, 249,
         165, 27, 129, 112, 46, 178, 25, 233, 64, 177, 184, 0, 79, 126, 192, 86>>>>,
     <<<<173, 12, 111, 12, 201, 72, 245, 2, 241, 76, 91, 104, 225, 21, 110, 84, 157, 175,
         3, 7, 158, 138, 95, 166, 121, 83, 61, 4, 63, 37, 174, 189>>,
       <<3, 218, 252, 225, 216, 0, 254, 81, 147, 164, 64, 93, 13, 148, 238, 229, 89, 110,
         52, 224, 147, 32, 7, 214, 28, 109, 214, 247, 45, 175, 220, 47, 138>>>>,
     <<<<173, 47, 63, 225, 95, 158, 147, 114, 106, 191, 119, 174, 253, 228, 147, 62, 107,
         66, 52, 33, 11, 111, 208, 140, 125, 77, 114, 140, 118, 171, 118, 3>>,
       <<2, 70, 12, 133, 70, 20, 185, 44, 153, 49, 51, 194, 208, 38, 186, 220, 208, 12,
         138, 76, 123, 117, 242, 203, 235, 24, 253, 40, 89, 224, 36, 46, 67>>>>,
     <<<<175, 65, 94, 235, 117, 120, 131, 225, 255, 194, 173, 176, 216, 224, 210, 148,
         198, 128, 97, 54, 203, 105, 3, 39, 14, 108, 211, 167, 223, 127, 13, 186>>,
       <<3, 29, 197, 48, 138, 5, 11, 197, 91, 142, 233, 171, 159, 254, 9, 149, 126, 76,
         234, 107, 117, 183, 118, 64, 37, 201, 135, 252, 143, 178, 57, 97, 6>>>>,
     <<<<176, 27, 64, 55, 253, 196, 89, 198, 68, 128, 101, 103, 170, 0, 96, 107, 104,
         176, 29, 33, 60, 26, 7, 9, 83, 128, 106, 104, 244, 131, 227, 69>>,
       <<3, 169, 180, 29, 245, 69, 55, 108, 14, 51, 89, 168, 213, 169, 239, 168, 130,
         122, 62, 110, 74, 230, 30, 217, 32, 171, 172, 198, 193, 110, 211, 131, 38>>>>,
     <<<<183, 132, 46, 213, 255, 108, 50, 230, 38, 66, 75, 156, 218, 30, 235, 94, 71,
         121, 80, 122, 229, 199, 114, 236, 104, 48, 142, 26, 121, 230, 125, 53>>,
       <<3, 168, 186, 55, 28, 206, 104, 145, 137, 253, 105, 182, 127, 179, 254, 185, 70,
         58, 150, 216, 53, 213, 160, 107, 254, 174, 156, 192, 237, 10, 35, 101, 7>>>>,
     <<<<183, 39, 56, 195, 7, 161, 134, 60, 156, 161, 223, 101, 63, 235, 185, 164, 121,
         29, 122, 81, 7, 85, 111, 255, 33, 141, 198, 124, 105, 211, 71, 242>>,
       <<2, 2, 143, 54, 93, 70, 41, 79, 154, 101, 180, 34, 59, 58, 195, 144, 246, 105,
         239, 252, 26, 243, 96, 143, 235, 147, 165, 208, 187, 107, 222, 82, 193>>>>>>
    \o <<<<<<184, 184, 5, 244, 158, 129, 108, 66, 50, 132, 116, 15, 26, 210, 64, 198, 30,
         168, 44, 140, 182, 226, 125, 52, 168, 31, 162, 67, 137, 79, 233, 227>>,
       <<3, 161, 249, 34, 49, 145, 156, 141, 71, 201, 198, 109, 85, 153, 164, 97, 101,
         164, 164, 6, 240, 114, 242, 247, 113, 249, 213, 150, 99, 86, 94, 67, 22>>>>,
     <<<<184, 4, 244, 190, 87, 223, 126, 41, 192, 87, 94, 237, 90, 12, 217, 245, 232,
         234, 201, 130, 113, 39, 253, 44, 231, 91, 53, 203, 127, 40, 39, 235>>,
       <<2, 166, 97, 253, 38, 6, 129, 42, 131, 138, 250, 58, 66, 130, 98, 80, 232, 206,
         69, 204, 81, 182, 130, 112, 110, 188, 194, 101, 96, 154, 42, 97, 234>>>>,
     <<<<185, 107, 99, 222, 207, 148, 109, 196, 106, 239, 100, 139, 243, 187, 81, 232,
         18, 225, 29, 216, 210, 154, 188, 172, 242, 179, 120, 69, 232, 212, 126, 130>>,
       <<2, 47, 173, 31, 106, 179, 96, 103, 108, 18, 57, 158, 13, 155, 217, 220, 116, 66,
         187, 167, 210, 2, 0, 130, 132, 32, 66, 69, 40, 145, 115, 149, 20>>>>,
     <<<<185, 36, 105, 149, 8, 30, 30, 131, 204, 232, 128, 161, 214, 124, 106, 233, 180,
         250, 42, 54, 58, 17, 104, 24, 253, 107, 143, 81, 136, 32, 93, 105>>,
       <<2, 105, 95, 72, 109, 86, 28, 97, 138, 156, 23, 228, 103, 24, 29, 255, 89, 82,
         195, 11, 5, 164, 253, 13, 33, 127, 32, 183, 159, 212, 12, 75, 9>>>>,
     <<<<187, 128, 47, 14, 223, 142, 44, 84, 102, 18, 5, 168, 144, 174, 171, 186, 87, 38,
         52, 209, 219, 62, 42, 42, 245, 124, 79, 198, 232, 201, 104, 57>>,
       <<3, 148, 70, 102, 24, 111, 207, 133, 71, 239, 233, 178, 127, 149, 190, 133, 93,
         124, 71, 154, 91, 110, 228, 96, 85, 184, 227, 5, 134, 79, 95, 11, 160>>>>,
     <<<<193, 190, 175, 240, 196, 219, 152, 70, 112, 164, 12, 105, 194, 148, 123, 157,
         51, 205, 127, 110, 116, 156, 103, 225, 252, 181, 198, 17, 141, 218, 18, 130>>,
       <<2, 234, 38, 73, 179, 81, 43, 154, 133, 154, 182, 88, 168, 94, 41, 137, 167, 174,
         57, 178, 81, 136, 119, 178, 220, 15, 43, 68, 183, 133, 213, 120, 141>>>>,
     <<<<193, 240, 108, 163, 66, 117, 3, 114, 159, 225, 239, 242, 155, 147, 193, 110,
         182, 169, 229, 101, 4, 66, 177, 101, 223, 121, 96, 89, 149, 44, 0, 111>>,
       <<3, 75, 201, 47, 246, 153, 113, 221, 187, 40, 171, 95, 102, 179, 142, 75, 187,
         218, 205, 219, 134, 193, 16, 224, 216, 7, 150, 22, 113, 27, 34, 58, 211>>>>,
     <<<<194, 34, 61, 11, 239, 157, 197, 116, 253, 99, 236, 69, 249, 206, 104, 40, 229,
         218, 94, 235, 170, 206, 236, 27, 243, 214, 98, 35, 194, 96, 209, 43>>,
       <<3, 136, 11, 27, 171, 250, 149, 101, 251, 34, 224, 131, 109, 131, 82, 96, 26,
         111, 192, 226, 128, 202, 40, 209, 190, 12, 225, 99, 10, 32, 69, 153, 51>>>>,
     <<<<195, 119, 10, 154, 163, 24, 37, 38, 226, 131, 29, 18, 242, 18, 101, 227, 118,
         176, 149, 222, 226, 175, 232, 30, 120, 61, 228, 65, 88, 2, 24, 8>>,
       <<2, 77, 117, 209, 252, 26, 133, 41, 33, 118, 113, 83, 175, 221, 239, 188, 64, 99,
         45, 101, 10, 69, 20, 255, 37, 124, 146, 169, 207, 44, 245, 122, 105>>>>,
     <<<<197, 82, 225, 5, 160, 143, 125, 95, 63, 253, 83, 246, 247, 141, 195, 193, 219,
         150, 216, 57, 9, 187, 123, 157, 224, 112, 211, 175, 155, 229, 17, 134>>,
       <<3, 210, 11, 152, 35, 230, 3, 1, 10, 23, 123, 112, 97, 239, 30, 106, 229, 166,
         181, 2, 242, 235, 55, 114, 55, 241, 188, 61, 128, 40, 188, 185, 236>>>>,
     <<<<200, 119, 229, 223, 230, 163, 9, 80, 174, 23, 64, 135, 98, 187, 223, 130, 86,
         242, 71, 229, 72, 28, 237, 184, 16, 187, 105, 240, 157, 108, 96, 26>>,
       <<3, 193, 40, 109, 169, 104, 180, 239, 244, 94, 232, 190, 249, 219, 70, 91, 182,
         218, 85, 175, 222, 3, 254, 183, 243, 93, 221, 255, 210, 5, 167, 138, 78>>>>,
     <<<<200, 16, 147, 213, 68, 112, 46, 207, 199, 73, 161, 191, 43, 176, 246, 24, 122,
         221, 59, 12, 173, 86, 140, 111, 244, 31, 23, 58, 91, 157, 92, 148>>,
       <<3, 3, 97, 123, 159, 124, 100, 156, 7, 91, 132, 187, 40, 208, 253, 177, 80, 207,
         12, 145, 64, 113, 187, 226, 50, 82, 127, 215, 216, 93, 177, 182, 175>>>>,
     <<<<200, 196, 8, 69, 35, 134, 228, 165, 110, 202, 98, 102, 255, 170, 67, 77, 116,
         115, 68, 70, 214, 116, 229, 48, 179, 168, 120, 76, 41, 236, 143, 246>>,
       <<3, 219, 216, 199, 203, 116, 68, 226, 84, 11, 245, 252, 84, 235, 220, 109, 237,
         55, 94, 166, 235, 149, 130, 55, 230, 75, 15, 26, 244, 107, 94, 125, 238>>>>,
     <<<<200, 232, 90, 66, 180, 221, 211, 142, 141, 67, 233, 188, 84, 242, 194, 200, 32,
         232, 59, 233, 76, 77, 217, 161, 196, 253, 191, 109, 120, 170, 219, 208>>,
       <<3, 17, 251, 36, 104, 139, 233, 171, 253, 54, 138, 147, 208, 62, 83, 10, 151,
         132, 60, 57, 52, 124, 38, 115, 90, 115, 89, 42, 250, 233, 242, 222, 168>>>>,
     <<<<201, 118, 222, 94, 161, 54, 105, 177, 115, 39, 10, 175, 62, 147, 205, 63, 104,
         42, 97, 254, 17, 41, 222, 18, 236, 32, 124, 235, 131, 108, 174, 63>>,
       <<2, 67, 86, 230, 32, 207, 204, 119, 185, 226, 177, 161, 131, 190, 128, 86, 234,
         85, 66, 95, 255, 179, 54, 129, 186, 104, 42, 131, 52, 8, 110, 217, 85>>>>,
     <<<<203, 115, 59, 205, 11, 121, 133, 194, 159, 196, 11, 33, 144, 247, 14, 2, 139,
         42, 176, 163, 221, 251, 141, 245, 108, 147, 18, 28, 202, 237, 167, 139>>,
       <<2, 133, 60, 120, 98, 91, 231, 186, 65, 62, 165, 67, 236, 178, 41, 114, 233, 50,
         9, 143, 230, 123, 85, 128, 33, 141, 248, 121, 45, 199, 40, 207, 77>>>>>>
    \o <<<<<<205, 70, 4, 159, 184, 42, 79, 204, 189, 150, 124, 82, 52, 230, 17, 82, 244, 223,
         135, 208, 29, 30, 248, 51, 66, 8, 20, 198, 126, 228, 183, 234>>,
       <<3, 66, 138, 45, 163, 231, 98, 145, 102, 122, 103, 163, 142, 212, 84, 104, 206,
         176, 209, 86, 188, 139, 237, 166, 232, 111, 188, 76, 242, 149, 8, 124, 43>>>>,
     <<<<207, 163, 47, 195, 51, 183, 41, 124, 166, 17, 195, 63, 4, 109, 150, 137, 80,
         113, 103, 46, 30, 93, 155, 119, 243, 73, 43, 60, 141, 1, 73, 249>>,
       <<3, 56, 153, 67, 73, 179, 168, 4, 196, 75, 190, 197, 92, 40, 36, 68, 62, 187,
         158, 71, 93, 253, 173, 20, 244, 177, 160, 26, 151, 212, 39, 81, 179>>>>,
     <<<<208, 43, 82, 39, 95, 87, 240, 71, 177, 206, 166, 22, 248, 54, 231, 125, 4, 164,
         34, 22, 61, 166, 145, 59, 232, 112, 4, 92, 12, 44, 220, 1>>,
       <<3, 155, 41, 24, 47, 35, 76, 133, 50, 35, 192, 199, 26, 192, 61, 3, 130, 4, 155,
         25, 218, 207, 196, 243, 171, 43, 70, 43, 98, 40, 112, 32, 91>>>>,
     <<<<211, 221, 219, 186, 232, 207, 180, 46, 230, 154, 211, 172, 230, 11, 117, 54,
         253, 168, 202, 0, 177, 151, 67, 127, 129, 234, 112, 136, 21, 31, 199, 211>>,
       <<2, 117, 70, 52, 128, 194, 134, 146, 168, 59, 40, 227, 101, 74, 63, 138, 243, 46,
         18, 141, 131, 11, 208, 112, 253, 131, 217, 185, 103, 187, 165, 69, 53>>>>,
     <<<<212, 184, 192, 163, 170, 79, 42, 193, 120, 170, 198, 130, 184, 183, 18, 247,
         101, 154, 27, 251, 17, 11, 9, 226, 166, 206, 72, 113, 37, 202, 184, 117>>,
       <<3, 54, 130, 220, 72, 189, 160, 6, 19, 167, 223, 218, 60, 120, 128, 60, 212, 55,
         29, 164, 41, 106, 229, 176, 133, 203, 38, 215, 194, 166, 199, 140, 33>>>>,
     <<<<213, 152, 149, 237, 43, 82, 249, 131, 253, 46, 82, 181, 64, 233, 131, 250, 166,
         21, 129, 252, 252, 146, 245, 108, 41, 68, 93, 2, 75, 167, 50, 82>>,
       <<3, 34, 198, 55, 117, 227, 131, 19, 191, 0, 251, 74, 124, 108, 232, 177, 93, 3,
         186, 73, 88, 119, 34, 3, 31, 87, 188, 72, 232, 151, 94, 146, 216>>>>,
     <<<<216, 174, 32, 76, 66, 235, 50, 204, 125, 123, 189, 104, 2, 43, 246, 189, 246,
         250, 255, 128, 240, 21, 1, 87, 117, 188, 179, 190, 156, 48, 166, 126>>,
       <<3, 82, 157, 73, 125, 29, 215, 0, 33, 233, 61, 210, 109, 8, 230, 89, 163, 245,
         181, 160, 36, 134, 36, 46, 133, 188, 154, 165, 204, 141, 98, 223, 169>>>>,
     <<<<217, 174, 173, 210, 123, 142, 16, 222, 213, 137, 27, 75, 88, 144, 54, 177, 173,
         163, 34, 70, 246, 89, 238, 248, 238, 203, 77, 171, 151, 59, 10, 186>>,
       <<3, 2, 1, 149, 64, 150, 52, 120, 46, 182, 107, 212, 172, 227, 196, 81, 122, 29,
         219, 128, 215, 71, 62, 133, 89, 9, 248, 230, 213, 50, 122, 203, 25>>>>,
     <<<<22, 135, 0, 129, 178, 134, 126, 168, 160, 202, 229, 72, 105, 167, 226, 132, 52,
         1, 113, 248, 82, 191, 219, 250, 224, 44, 70, 254, 24, 84, 131, 240>>,
       <<2, 64, 135, 38, 188, 141, 40, 19, 38, 106, 160, 243, 138, 73, 142, 227, 95, 36,
         91, 7, 45, 169, 42, 215, 190, 52, 21, 32, 164, 219, 45, 34, 53>>>>,
     <<<<22, 184, 11, 154, 24, 21, 101, 70, 217, 177, 164, 182, 147, 187, 175, 50, 157,
         50, 200, 14, 10, 165, 4, 132, 9, 250, 102, 55, 23, 154, 111, 232>>,
       <<3, 144, 237, 205, 184, 212, 44, 213, 22, 143, 14, 116, 90, 139, 64, 156, 250,
         136, 60, 68, 162, 193, 168, 207, 82, 36, 225, 202, 161, 23, 97, 36, 186>>>>,
     <<<<222, 17, 131, 197, 49, 248, 237, 190, 82, 64, 193, 164, 215, 140, 187, 118, 29,
         147, 38, 110, 68, 69, 128, 88, 121, 223, 44, 187, 233, 94, 198, 77>>,
       <<2, 86, 231, 164, 231, 137, 70, 239, 178, 114, 232, 67, 255, 96, 224, 37, 69,
         231, 110, 154, 197, 78, 139, 159, 208, 89, 49, 210, 10, 150, 78, 59, 46>>>>,
     <<<<223, 61, 176, 57, 245, 49, 145, 29, 122, 245, 146, 241, 49, 254, 70, 30, 182, 3,
         178, 68, 232, 103, 63, 192, 98, 143, 11, 152, 78, 62, 5, 255>>,
       <<2, 194, 184, 240, 30, 51, 1, 59, 167, 114, 214, 180, 240, 4, 251, 216, 240, 160,
         220, 47, 183, 2, 159, 235, 221, 89, 104, 113, 79, 55, 128, 56, 255>>>>,
     <<<<225, 79, 39, 77, 22, 202, 13, 145, 3, 27, 152, 177, 98, 97, 128, 97, 208, 57,
         48, 250, 56, 26, 246, 212, 202, 244, 75, 1, 129, 154, 182, 212>>,
       <<2, 112, 122, 98, 253, 172, 194, 110, 169, 182, 59, 28, 25, 121, 6, 245, 110,
         224, 24, 13, 11, 207, 25, 102, 225, 162, 218, 52, 245, 243, 160, 154, 155>>>>,
     <<<<226, 132, 18, 156, 192, 146, 37, 121, 165, 53, 187, 244, 209, 163, 178, 87, 115,
         9, 13, 40, 201, 9, 188, 15, 237, 115, 181, 224, 34, 44, 195, 114>>,
       <<3, 170, 235, 82, 221, 116, 148, 195, 97, 4, 157, 230, 124, 198, 128, 232, 62,
         188, 187, 189, 190, 177, 54, 55, 217, 44, 216, 69, 247, 3, 8, 175, 94>>>>,
     <<<<226, 214, 245, 248, 127, 3, 37, 106, 238, 35, 227, 8, 180, 230, 160, 112, 61,
         85, 63, 5, 115, 221, 205, 196, 220, 99, 85, 203, 186, 226, 27, 116>>,
       <<3, 156, 28, 207, 72, 25, 77, 167, 184, 99, 81, 246, 226, 150, 151, 95, 139, 186,
         100, 188, 127, 89, 160, 237, 213, 135, 152, 37, 191, 114, 237, 140, 202>>>>,
     <<<<226, 37, 119, 33, 162, 105, 189, 194, 198, 37, 123, 197, 135, 224, 209, 207, 26,
         201, 117, 151, 182, 91, 196, 204, 87, 10, 46, 72, 211, 183, 125, 109>>,
       <<3, 221, 62, 131, 47, 181, 173, 246, 26, 131, 177, 6, 97, 224, 95, 133, 161, 126,
         157, 30, 171, 224, 151, 169, 80, 205, 215, 208, 200, 178, 106, 32, 98>>>>>>
    \o <<<<<<228, 121, 145, 93, 5, 97, 40, 33, 89, 251, 111, 51, 93, 248, 47, 41, 231, 135,
         77, 119, 18, 69, 173, 249, 234, 149, 135, 88, 164, 72, 79, 50>>,
       <<2, 112, 119, 43, 186, 18, 143, 99, 110, 39, 202, 76, 39, 28, 0, 196, 97, 83,
         163, 113, 115, 47, 147, 169, 63, 120, 69, 186, 208, 71, 8, 253, 138>>>>,
     <<<<229, 248, 142, 29, 164, 126, 43, 16, 118, 189, 231, 243, 167, 12, 176, 76, 3,
         115, 83, 38, 43, 254, 222, 109, 93, 66, 174, 180, 66, 66, 216, 135>>,
       <<3, 24, 150, 105, 58, 81, 22, 220, 130, 202, 188, 24, 156, 87, 123, 210, 176,
         224, 26, 255, 176, 190, 164, 254, 224, 5, 202, 242, 221, 73, 152, 181, 65>>>>,
     <<<<23, 156, 195, 106, 148, 191, 46, 176, 36, 199, 68, 222, 18, 160, 217, 64, 114,
         189, 249, 2, 241, 31, 142, 243, 219, 15, 76, 83, 89, 234, 16, 23>>,
       <<3, 161, 162, 17, 110, 184, 187, 83, 64, 137, 38, 163, 4, 66, 125, 32, 119, 183,
         224, 46, 216, 73, 186, 242, 77, 108, 192, 145, 87, 94, 250, 33, 133>>>>,
     <<<<230, 236, 235, 219, 193, 167, 242, 73, 175, 127, 237, 35, 121, 33, 206, 89, 84,
         54, 128, 102, 139, 54, 152, 2, 143, 202, 176, 110, 97, 169, 73, 111>>,
       <<3, 243, 121, 19, 172, 210, 135, 232, 205, 116, 21, 85, 158, 179, 118, 33, 188,
         11, 60, 85, 134, 78, 93, 249, 125, 138, 42, 118, 14, 46, 125, 144, 217>>>>,
     <<<<234, 0, 34, 254, 72, 54, 176, 178, 29, 134, 54, 18, 89, 2, 112, 167, 1, 200,
         171, 134, 85, 231, 218, 76, 26, 217, 162, 90, 153, 139, 95, 81>>,
       <<2, 167, 8, 200, 56, 216, 143, 105, 150, 71, 203, 247, 171, 228, 239, 124, 195,
         25, 89, 38, 184, 22, 68, 184, 5, 117, 130, 111, 32, 235, 92, 133, 53>>>>,
     <<<<234, 178, 13, 173, 39, 173, 101, 96, 82, 152, 26, 61, 243, 144, 107, 171, 118,
         252, 182, 99, 153, 166, 221, 98, 159, 210, 65, 161, 46, 167, 162, 71>>,
       <<3, 3, 191, 61, 239, 125, 96, 188, 48, 234, 42, 129, 154, 75, 149, 100, 231, 153,
         152, 182, 27, 40, 73, 223, 98, 11, 191, 157, 126, 42, 30, 200, 171>>>>,
     <<<<235, 196, 94, 102, 78, 93, 153, 153, 14, 115, 55, 230, 143, 254, 182, 47, 63,
         91, 64, 53, 21, 27, 59, 209, 37, 118, 187, 130, 183, 109, 34, 156>>,
       <<3, 68, 158, 72, 235, 247, 243, 34, 193, 85, 60, 202, 18, 243, 32, 87, 90, 27,
         23, 3, 47, 7, 77, 244, 22, 192, 250, 20, 157, 177, 41, 114, 105>>>>,
     <<<<235, 82, 85, 206, 216, 21, 15, 209, 182, 48, 163, 135, 17, 24, 79, 52, 20, 20,
         245, 161, 178, 65, 169, 96, 112, 251, 214, 80, 40, 239, 89, 211>>,
       <<2, 43, 180, 96, 89, 153, 170, 44, 134, 134, 254, 35, 224, 67, 29, 133, 67, 34,
         63, 83, 99, 193, 185, 189, 222, 112, 225, 134, 23, 191, 67, 53, 99>>>>,
     <<<<237, 52, 20, 71, 167, 113, 131, 166, 88, 80, 164, 90, 42, 226, 1, 140, 55, 1,
         32, 90, 60, 106, 239, 126, 60, 246, 146, 88, 224, 246, 158, 80>>,
       <<3, 146, 190, 55, 212, 183, 233, 125, 13, 31, 134, 121, 226, 178, 28, 41, 45, 99,
         40, 186, 228, 224, 116, 76, 252, 124, 107, 182, 207, 41, 29, 152, 165>>>>,
     <<<<24, 236, 61, 147, 203, 71, 210, 64, 11, 72, 83, 111, 122, 181, 232, 220, 242,
         203, 113, 71, 52, 187, 158, 199, 29, 84, 65, 160, 82, 203, 28, 112>>,
       <<3, 111, 218, 52, 90, 107, 210, 95, 62, 39, 21, 195, 36, 120, 229, 154, 142, 40,
         226, 191, 16, 111, 14, 241, 239, 36, 40, 71, 17, 141, 197, 112, 45>>>>,
     <<<<24, 55, 193, 190, 142, 41, 149, 236, 17, 205, 162, 176, 102, 21, 27, 226, 207,
         180, 138, 223, 158, 71, 177, 81, 212, 106, 218, 179, 162, 28, 223, 103>>,
       <<3, 217, 2, 243, 95, 86, 14, 4, 112, 198, 51, 19, 199, 54, 145, 104, 217, 215,
         223, 45, 73, 191, 41, 95, 217, 251, 124, 177, 9, 204, 238, 4, 148>>>>,
     <<<<240, 117, 214, 206, 35, 180, 168, 1, 135, 8, 209, 9, 94, 244, 59, 98, 38, 70,
         215, 72, 186, 112, 219, 126, 41, 213, 14, 107, 27, 179, 68, 182>>,
       <<2, 225, 232, 57, 247, 113, 169, 175, 96, 85, 78, 4, 61, 233, 162, 197, 175, 109,
         171, 197, 189, 29, 50, 243, 49, 151, 9, 125, 202, 84, 142, 137, 87>>>>,
     <<<<243, 106, 22, 105, 34, 81, 78, 46, 60, 127, 9, 225, 57, 176, 174, 255, 3, 156,
         191, 2, 6, 6, 103, 11, 39, 85, 79, 127, 225, 162, 77, 156>>,
       <<3, 192, 152, 166, 116, 57, 39, 85, 71, 18, 241, 203, 194, 64, 239, 115, 25, 13,
         177, 183, 99, 59, 8, 213, 79, 248, 83, 137, 148, 57, 193, 2, 181>>>>,
     <<<<244, 180, 181, 170, 221, 6, 134, 213, 209, 33, 15, 148, 76, 120, 122, 219, 133,
         146, 53, 112, 252, 183, 40, 128, 250, 64, 6, 238, 95, 88, 71, 96>>,
       <<2, 159, 197, 100, 224, 179, 19, 146, 190, 17, 117, 10, 193, 45, 56, 161, 250,
         166, 248, 198, 64, 247, 3, 36, 126, 125, 187, 242, 149, 178, 21, 132, 126>>>>,
     <<<<254, 100, 175, 130, 91, 91, 120, 85, 76, 51, 162, 139, 35, 8, 95, 192, 130, 246,
         145, 179, 199, 18, 204, 29, 78, 102, 225, 51, 41, 125, 168, 122>>,
       <<3, 119, 76, 145, 15, 207, 7, 250, 150, 136, 110, 167, 148, 240, 213, 202, 237,
         154, 254, 48, 180, 75, 131, 247, 226, 19, 187, 146, 147, 14, 125, 244, 189>>>>,
     <<<<255, 145, 246, 202, 251, 249, 44, 10, 206, 238, 86, 166, 160, 20, 55, 170, 239,
         149, 107, 38, 96, 141, 223, 255, 110, 166, 90, 49, 228, 37, 23, 56>>,
       <<3, 8, 12, 103, 43, 142, 87, 247, 70, 164, 117, 243, 177, 199, 1, 196, 240, 197,
         114, 87, 65, 190, 204, 66, 251, 5, 45, 124, 199, 199, 103, 135, 246>>>>>>
    \o <<<<<<255, 25, 138, 247, 69, 83, 91, 217, 151, 50, 113, 3, 171, 123, 59, 110, 136, 25,
         13, 59, 238, 243, 224, 223, 110, 149, 175, 204, 208, 129, 166, 243>>,
       <<2, 155, 71, 151, 119, 232, 200, 144, 147, 97, 48, 54, 185, 19, 220, 229, 32, 78,
         201, 98, 92, 4, 88, 113, 247, 106, 242, 53, 5, 164, 180, 248, 11>>>>,
     <<<<31, 105, 56, 147, 150, 21, 224, 242, 64, 153, 225, 104, 242, 82, 8, 106, 202,
         138, 248, 35, 40, 30, 191, 78, 171, 32, 135, 167, 220, 205, 130, 65>>,
       <<3, 44, 247, 41, 215, 246, 66, 226, 18, 194, 103, 73, 195, 50, 217, 126, 108, 48,
         224, 38, 244, 235, 115, 237, 221, 42, 221, 173, 56, 242, 152, 172, 89>>>>,
     <<<<32, 150, 69, 208, 232, 50, 59, 151, 184, 193, 175, 169, 190, 227, 63, 62, 189,
         97, 69, 220, 106, 234, 245, 5, 231, 242, 152, 187, 194, 24, 0, 151>>,
       <<3, 138, 188, 244, 56, 174, 19, 56, 8, 113, 117, 173, 190, 192, 177, 114, 175,
         67, 1, 39, 170, 43, 184, 191, 188, 156, 186, 238, 245, 107, 96, 149, 79>>>>,
     <<<<34, 223, 146, 85, 189, 70, 233, 107, 124, 177, 168, 61, 205, 211, 179, 81, 113,
         193, 146, 52, 146, 161, 99, 38, 142, 126, 190, 32, 83, 243, 21, 199>>,
       <<2, 106, 93, 133, 39, 204, 222, 76, 117, 1, 200, 109, 48, 193, 62, 135, 1, 244,
         37, 228, 102, 166, 151, 18, 38, 103, 212, 53, 59, 110, 57, 101, 167>>>>,
     <<<<34, 8, 194, 202, 4, 164, 84, 213, 237, 7, 71, 184, 6, 93, 151, 83, 33, 169, 122,
         180, 143, 139, 236, 230, 99, 211, 99, 148, 174, 28, 129, 9>>,
       <<2, 28, 116, 161, 53, 233, 160, 80, 64, 65, 79, 37, 114, 184, 129, 70, 141, 131,
         199, 24, 45, 110, 44, 158, 82, 79, 233, 162, 210, 126, 167, 177, 151>>>>,
     <<<<34, 93, 152, 137, 160, 194, 33, 143, 199, 112, 163, 27, 103, 17, 68, 71, 186,
         36, 7, 222, 199, 201, 62, 192, 23, 148, 36, 250, 238, 0, 178, 63>>,
       <<2, 203, 205, 111, 230, 105, 99, 166, 248, 195, 166, 245, 209, 10, 220, 65, 202,
         95, 220, 117, 115, 104, 37, 60, 140, 35, 1, 228, 135, 98, 174, 35, 234>>>>,
     <<<<35, 219, 172, 162, 35, 244, 58, 216, 229, 117, 90, 172, 92, 35, 70, 138, 118,
         175, 161, 249, 250, 65, 42, 205, 208, 52, 159, 85, 34, 218, 7, 237>>,
       <<3, 65, 145, 4, 59, 190, 151, 73, 79, 255, 140, 200, 213, 38, 29, 154, 147, 10,
         182, 179, 165, 189, 134, 242, 220, 170, 62, 83, 136, 66, 233, 180, 132>>>>,
     <<<<36, 71, 150, 52, 237, 91, 95, 178, 133, 114, 29, 3, 219, 78, 166, 170, 183, 153,
         162, 100, 39, 57, 28, 126, 122, 220, 239, 14, 38, 21, 100, 194>>,
       <<2, 54, 215, 108, 96, 103, 78, 56, 82, 82, 238, 18, 237, 47, 154, 203, 33, 199,
         206, 197, 82, 94, 43, 195, 18, 155, 186, 47, 11, 136, 201, 240, 107>>>>,
     <<<<37, 21, 60, 199, 198, 157, 156, 145, 241, 150, 125, 204, 72, 214, 200, 104, 187,
         123, 114, 40, 246, 166, 20, 137, 242, 68, 201, 9, 213, 59, 72, 233>>,
       <<3, 184, 132, 182, 66, 195, 169, 237, 191, 101, 206, 156, 20, 106, 66, 132, 82,
         123, 122, 243, 246, 180, 140, 152, 202, 28, 125, 11, 10, 24, 77, 64, 98>>>>,
     <<<<37, 69, 254, 96, 108, 29, 109, 221, 235, 151, 132, 23, 18, 173, 140, 222, 31,
         158, 242, 2, 219, 90, 62, 6, 24, 173, 41, 41, 255, 170, 88, 136>>,
       <<2, 163, 82, 229, 161, 107, 172, 53, 48, 167, 162, 240, 210, 164, 155, 52, 246,
         188, 173, 124, 222, 247, 25, 184, 24, 77, 106, 28, 82, 167, 190, 25, 78>>>>,
     <<<<42, 112, 74, 16, 159, 132, 144, 113, 167, 57, 246, 78, 116, 190, 30, 246, 149,
         83, 245, 207, 121, 64, 110, 153, 241, 251, 109, 82, 241, 17, 43, 205>>,
       <<3, 162, 167, 106, 225, 172, 31, 171, 156, 41, 229, 101, 36, 215, 23, 115, 197,
         134, 103, 22, 167, 40, 88, 67, 144, 78, 207, 215, 197, 157, 200, 43, 95>>>>,
     <<<<46, 90, 47, 236, 186, 250, 135, 33, 70, 53, 69, 53, 60, 89, 124, 204, 163, 214,
         12, 219, 124, 199, 155, 107, 238, 55, 213, 48, 161, 135, 8, 122>>,
       <<3, 110, 229, 37, 68, 108, 170, 49, 73, 102, 83, 73, 198, 79, 86, 21, 248, 116,
         232, 79, 171, 102, 187, 32, 139, 159, 3, 63, 193, 161, 4, 38, 140>>>>,
     <<<<47, 208, 175, 250, 81, 82, 159, 148, 10, 53, 142, 192, 197, 13, 232, 18, 103,
         208, 191, 81, 88, 202, 97, 136, 115, 71, 103, 105, 70, 54, 44, 91>>,
       <<3, 231, 117, 253, 81, 240, 223, 184, 205, 134, 93, 159, 241, 204, 162, 161, 88,
         207, 101, 31, 233, 151, 253, 201, 254, 233, 193, 211, 181, 233, 149, 234, 119>>>>,
     <<<<5, 163, 114, 154, 178, 45, 248, 175, 135, 142, 199, 175, 27, 40, 31, 231, 38,
         148, 10, 96, 224, 84, 10, 220, 63, 229, 43, 35, 56, 200, 199, 231>>,
       <<2, 143, 187, 76, 223, 141, 219, 44, 132, 3, 147, 112, 98, 114, 65, 167, 102,
         205, 166, 247, 211, 144, 246, 89, 22, 193, 66, 99, 115, 16, 9, 45, 216>>>>,
     <<<<5, 76, 200, 122, 98, 83, 216, 90, 38, 156, 49, 176, 179, 222, 187, 233, 211,
         127, 223, 156, 236, 162, 225, 199, 47, 61, 173, 242, 210, 24, 67, 11>>,
       <<2, 155, 168, 212, 177, 52, 102, 173, 143, 120, 205, 18, 8, 246, 0, 35, 238, 86,
         142, 148, 163, 254, 60, 63, 244, 164, 204, 219, 197, 186, 6, 39, 250>>>>,
     <<<<5, 77, 200, 191, 34, 175, 24, 157, 252, 224, 196, 5, 25, 95, 150, 59, 208, 77,
         221, 6, 164, 66, 166, 143, 254, 163, 60, 102, 80, 52, 148, 89>>,
       <<3, 226, 214, 179, 222, 199, 239, 198, 7, 206, 71, 64, 84, 13, 179, 162, 77, 27,
         10, 86, 253, 214, 155, 104, 146, 68, 234, 26, 54, 153, 224, 46, 220>>>>>>
    \o <<<<<<50, 119, 87, 138, 86, 183, 33, 228, 201, 240, 113, 241, 226, 74, 160, 249, 76,
         79, 247, 46, 121, 103, 254, 160, 59, 19, 79, 96, 95, 7, 200, 253>>,
       <<3, 2, 83, 36, 136, 142, 66, 154, 184, 227, 219, 175, 31, 120, 2, 100, 139, 156,
         208, 30, 155, 65, 132, 133, 197, 250, 76, 27, 155, 87, 0, 225, 166>>>>,
     <<<<53, 192, 208, 202, 18, 206, 41, 148, 24, 228, 246, 34, 106, 104, 249, 206, 82,
         227, 84, 61, 22, 192, 9, 50, 117, 225, 73, 85, 212, 84, 29, 148>>,
       <<3, 146, 242, 67, 45, 229, 126, 152, 236, 19, 83, 235, 243, 148, 24, 117, 224,
         91, 182, 172, 33, 81, 188, 144, 61, 228, 254, 80, 234, 68, 143, 79, 197>>>>,
     <<<<53, 37, 150, 23, 93, 229, 85, 216, 246, 14, 243, 105, 104, 168, 215, 69, 234,
         177, 25, 160, 23, 162, 70, 198, 80, 195, 2, 63, 62, 40, 33, 70>>,
       <<3, 223, 19, 154, 99, 7, 192, 235, 11, 124, 82, 184, 114, 155, 194, 143, 19, 232,
         209, 129, 109, 87, 90, 66, 122, 203, 238, 94, 152, 254, 213, 46, 93>>>>,
     <<<<58, 200, 82, 178, 115, 80, 90, 249, 62, 120, 246, 45, 157, 27, 121, 22, 165, 17,
         103, 227, 210, 156, 247, 58, 49, 113, 66, 2, 11, 4, 48, 144>>,
       <<2, 93, 151, 88, 224, 86, 168, 181, 228, 117, 36, 170, 249, 9, 200, 156, 9, 106,
         52, 255, 104, 170, 250, 249, 36, 222, 134, 65, 208, 62, 51, 44, 221>>>>,
     <<<<58, 32, 183, 46, 98, 87, 245, 42, 106, 38, 185, 173, 217, 187, 91, 169, 6, 136,
         133, 48, 241, 37, 239, 74, 196, 133, 85, 31, 33, 43, 255, 71>>,
       <<2, 28, 120, 198, 111, 247, 148, 226, 57, 140, 89, 163, 255, 15, 219, 253, 58,
         141, 51, 103, 16, 216, 163, 184, 213, 97, 232, 198, 225, 245, 150, 204, 76>>>>,
     <<<<59, 120, 228, 117, 123, 44, 74, 226, 188, 160, 84, 176, 89, 203, 132, 179, 218,
         126, 52, 64, 237, 199, 181, 120, 45, 188, 4, 251, 236, 147, 211, 16>>,
       <<3, 220, 247, 29, 247, 28, 117, 91, 58, 244, 111, 126, 132, 180, 24, 46, 98, 145,
         206, 197, 168, 198, 48, 247, 117, 99, 138, 115, 157, 162, 154, 220, 182>>>>,
     <<<<59, 70, 249, 40, 113, 13, 167, 241, 7, 57, 69, 131, 251, 110, 151, 173, 4, 247,
         72, 183, 210, 237, 143, 43, 133, 41, 16, 23, 122, 198, 111, 196>>,
       <<2, 49, 151, 107, 39, 5, 116, 115, 106, 6, 81, 134, 225, 85, 247, 69, 58, 169,
         191, 162, 14, 115, 87, 10, 110, 213, 146, 94, 145, 188, 10, 131, 132>>>>,
     <<<<61, 226, 114, 17, 103, 44, 86, 205, 66, 248, 89, 57, 14, 194, 159, 211, 191,
         124, 114, 56, 63, 197, 54, 163, 112, 161, 176, 162, 203, 44, 18, 6>>,
       <<2, 139, 45, 253, 146, 125, 109, 23, 252, 86, 146, 213, 0, 236, 28, 220, 146,
         254, 236, 201, 193, 128, 111, 152, 142, 73, 190, 211, 52, 21, 174, 117, 153>>>>,
     <<<<62, 186, 232, 150, 29, 112, 157, 178, 186, 1, 203, 237, 97, 166, 223, 223, 246,
         84, 220, 41, 232, 9, 156, 159, 34, 158, 91, 71, 147, 60, 155, 0>>,
       <<2, 132, 11, 96, 208, 169, 203, 123, 245, 157, 217, 135, 190, 226, 38, 113, 211,
         110, 19, 18, 150, 122, 216, 19, 84, 34, 27, 37, 193, 201, 132, 107, 201>>>>,
     <<<<62, 240, 47, 197, 48, 0, 116, 40, 145, 252, 144, 69, 139, 169, 237, 200, 54, 61,
         143, 31, 38, 126, 50, 107, 16, 120, 113, 12, 125, 179, 77, 229>>,
       <<3, 181, 24, 74, 82, 109, 172, 106, 189, 163, 216, 213, 74, 84, 20, 113, 206,
         131, 232, 194, 38, 13, 86, 112, 96, 83, 226, 120, 9, 34, 49, 159, 94>>>>,
     <<<<62, 29, 48, 244, 50, 147, 179, 54, 212, 150, 106, 224, 171, 100, 75, 10, 93,
         173, 27, 95, 250, 120, 165, 160, 133, 1, 46, 199, 116, 66, 155, 105>>,
       <<2, 13, 165, 25, 55, 92, 195, 208, 221, 130, 44, 108, 86, 65, 63, 226, 200, 6,
         27, 198, 157, 217, 185, 38, 185, 41, 94, 77, 27, 77, 10, 140, 45>>>>,
     <<<<62, 38, 7, 129, 126, 215, 173, 168, 46, 190, 26, 255, 139, 15, 77, 164, 47, 176,
         188, 138, 112, 216, 12, 55, 85, 223, 39, 104, 130, 236, 110, 139>>,
       <<2, 11, 240, 227, 153, 69, 215, 201, 141, 216, 196, 106, 221, 139, 136, 16, 183,
         250, 152, 104, 232, 132, 79, 15, 54, 87, 115, 76, 22, 217, 51, 108, 225>>>>,
     <<<<63, 28, 56, 220, 70, 78, 58, 190, 144, 227, 129, 3, 96, 169, 238, 118, 201, 135,
         111, 228, 32, 2, 16, 135, 203, 221, 217, 61, 26, 53, 110, 214>>,
       <<3, 2, 170, 222, 218, 183, 190, 130, 138, 212, 228, 63, 53, 59, 240, 233, 63, 97,
         233, 51, 46, 30, 83, 53, 3, 159, 110, 169, 144, 48, 54, 178, 53>>>>,
     <<<<66, 182, 216, 101, 234, 207, 53, 143, 243, 51, 22, 182, 5, 165, 42, 8, 222, 244,
         42, 17, 8, 47, 172, 237, 228, 198, 191, 15, 12, 79, 145, 229>>,
       <<3, 182, 95, 205, 172, 125, 188, 31, 27, 174, 87, 92, 254, 120, 151, 168, 34, 16,
         146, 27, 112, 240, 221, 175, 244, 151, 243, 69, 211, 209, 49, 37, 142>>>>,
     <<<<7, 65, 186, 11, 21, 120, 86, 11, 165, 14, 71, 216, 239, 227, 186, 253, 8, 94,
         193, 206, 227, 67, 151, 228, 187, 82, 99, 17, 165, 136, 50, 202>>,
       <<3, 193, 43, 161, 115, 169, 146, 62, 25, 96, 18, 146, 43, 252, 202, 75, 181, 121,
         78, 58, 13, 188, 164, 49, 139, 5, 88, 208, 117, 69, 149, 37, 93>>>>,
     <<<<70, 30, 172, 131, 106, 12, 208, 26, 171, 93, 70, 228, 111, 68, 87, 13, 238, 94,
         26, 86, 142, 32, 94, 52, 35, 76, 185, 99, 254, 87, 58, 116>>,
       <<2, 138, 189, 200, 52, 224, 102, 163, 106, 93, 220, 162, 178, 114, 162, 166, 242,
         175, 41, 201, 182, 254, 95, 20, 209, 4, 17, 246, 103, 212, 81, 240, 239>>>>>>
    \o <<<<<<70, 4, 180, 183, 16, 254, 145, 245, 132, 255, 240, 132, 225, 169, 21, 159, 228,
         248, 64, 143, 255, 56, 5, 150, 166, 4, 148, 132, 116, 206, 79, 163>>,
       <<3, 48, 213, 79, 208, 221, 66, 10, 110, 95, 141, 54, 36, 245, 243, 72, 44, 174,
         53, 15, 121, 213, 240, 117, 59, 245, 190, 239, 156, 45, 145, 175, 60>>>>,
     <<<<71, 166, 42, 190, 237, 184, 225, 32, 21, 210, 116, 63, 235, 32, 247, 84, 26, 30,
         239, 95, 156, 71, 149, 25, 111, 235, 248, 232, 132, 169, 80, 238>>,
       <<2, 193, 20, 244, 132, 31, 48, 182, 148, 179, 117, 245, 164, 185, 33, 253, 156,
         237, 116, 148, 133, 182, 20, 217, 70, 76, 58, 195, 16, 72, 200, 253, 122>>>>,
     <<<<74, 71, 48, 252, 34, 203, 98, 19, 33, 41, 147, 241, 42, 157, 58, 174, 140, 32,
         39, 112, 244, 116, 162, 92, 157, 224, 215, 132, 18, 160, 45, 223>>,
       <<3, 103, 187, 135, 178, 115, 195, 54, 13, 135, 135, 143, 183, 101, 33, 234, 164,
         150, 228, 77, 23, 200, 212, 25, 236, 192, 171, 59, 248, 174, 228, 187, 213>>>>,
     <<<<82, 6, 24, 82, 158, 153, 35, 116, 149, 222, 70, 74, 183, 239, 117, 223, 201, 32,
         123, 3, 155, 133, 51, 174, 177, 196, 32, 190, 215, 7, 2, 32>>,
       <<3, 146, 201, 183, 112, 140, 249, 131, 194, 39, 14, 141, 221, 17, 187, 238, 105,
         236, 71, 130, 83, 180, 221, 184, 99, 123, 94, 141, 131, 135, 135, 226, 28>>>>,
     <<<<84, 101, 30, 37, 124, 84, 77, 4, 225, 235, 173, 98, 150, 123, 111, 103, 67, 11,
         8, 153, 13, 3, 177, 101, 124, 0, 213, 221, 98, 70, 84, 240>>,
       <<3, 157, 133, 59, 58, 119, 179, 3, 199, 51, 111, 76, 21, 237, 118, 251, 13, 196,
         91, 187, 168, 111, 80, 42, 204, 208, 185, 238, 253, 145, 118, 232, 134>>>>,
     <<<<85, 88, 10, 138, 82, 228, 95, 39, 70, 137, 6, 7, 47, 103, 174, 33, 89, 126, 47,
         86, 196, 254, 243, 95, 201, 20, 206, 55, 64, 101, 220, 148>>,
       <<2, 43, 20, 180, 233, 206, 166, 57, 27, 38, 11, 205, 152, 129, 179, 64, 85, 254,
         53, 107, 131, 19, 182, 167, 235, 119, 0, 37, 197, 11, 206, 158, 97>>>>,
     <<<<87, 243, 153, 124, 118, 21, 160, 83, 154, 216, 99, 151, 236, 190, 43, 27, 32, 1,
         51, 1, 219, 13, 99, 129, 156, 174, 148, 122, 148, 199, 26, 86>>,
       <<3, 242, 111, 36, 44, 72, 81, 251, 199, 76, 129, 125, 187, 28, 211, 201, 153,
         147, 205, 7, 132, 112, 17, 125, 141, 4, 115, 222, 50, 115, 173, 28, 146>>>>,
     <<<<9, 202, 226, 29, 29, 201, 28, 248, 228, 108, 31, 153, 76, 91, 194, 18, 171, 29,
         122, 167, 28, 175, 44, 223, 9, 144, 82, 253, 250, 122, 233, 44>>,
       <<3, 122, 25, 15, 212, 28, 8, 59, 137, 255, 74, 226, 189, 24, 199, 192, 142, 44,
         171, 107, 109, 162, 102, 225, 169, 75, 91, 215, 162, 135, 75, 80, 2>>>>,
     <<<<90, 219, 117, 145, 166, 120, 24, 103, 188, 5, 91, 134, 231, 229, 53, 137, 109,
         185, 221, 140, 174, 82, 34, 37, 34, 111, 166, 194, 118, 20, 228, 213>>,
       <<3, 225, 37, 39, 225, 188, 23, 251, 252, 65, 253, 8, 166, 113, 140, 71, 134, 162,
         106, 5, 0, 3, 83, 110, 67, 164, 87, 25, 187, 135, 144, 167, 128>>>>,
     <<<<92, 17, 65, 246, 14, 221, 48, 149, 87, 149, 41, 219, 126, 136, 217, 100, 203,
         10, 158, 192, 248, 20, 246, 161, 12, 213, 203, 215, 99, 7, 138, 12>>,
       <<2, 223, 202, 236, 83, 32, 16, 215, 4, 134, 14, 32, 173, 106, 255, 140, 243, 71,
         113, 100, 255, 176, 47, 147, 212, 92, 85, 45, 173, 199, 14, 210, 79>>>>,
     <<<<93, 238, 232, 86, 17, 92, 221, 181, 219, 53, 217, 68, 89, 148, 158, 118, 121,
         67, 194, 60, 92, 67, 125, 166, 194, 200, 38, 153, 125, 226, 14, 43>>,
       <<2, 4, 18, 235, 136, 162, 71, 160, 202, 96, 13, 157, 42, 99, 161, 88, 61, 230,
         113, 201, 129, 126, 156, 96, 177, 187, 65, 134, 191, 61, 206, 206, 215>>>>,
     <<<<94, 167, 75, 183, 160, 156, 29, 147, 51, 83, 251, 13, 21, 218, 129, 23, 223, 40,
         170, 200, 97, 169, 58, 78, 255, 231, 16, 3, 24, 71, 38, 96>>,
       <<2, 186, 166, 76, 4, 215, 65, 163, 21, 132, 139, 237, 19, 110, 54, 241, 180, 88,
         120, 23, 139, 179, 239, 255, 246, 86, 112, 7, 197, 103, 0, 242, 225>>>>,
     <<<<96, 45, 192, 75, 67, 204, 90, 90, 145, 117, 35, 96, 153, 143, 38, 192, 88, 149,
         236, 220, 12, 182, 8, 90, 92, 91, 227, 155, 17, 219, 194, 165>>,
       <<3, 152, 156, 221, 63, 53, 32, 103, 97, 71, 104, 221, 134, 124, 136, 204, 134, 3,
         130, 120, 155, 117, 3, 87, 125, 145, 218, 61, 28, 103, 198, 215, 50>>>>>>

KnownSignatures ==
    <<<<<<<<0, 0, 0, 0, 0, 0, 0, 0, 0, 0, 0, 0, 0, 0, 0, 0, 0, 0, 0, 0, 0, 0, 0, 0, 0, 0,
           0, 0, 0, 0, 0, 5>>,
         <<101, 56, 13, 219, 234, 80, 104, 203, 229, 57, 94, 85, 70, 133, 161, 62, 113,
           79, 128, 162, 90, 253, 171, 78, 249, 213, 70, 65, 202, 158, 87, 151>>>>,
       [R |-> <<87, 224, 188, 52, 80, 6, 253, 98, 95, 121, 130, 122, 180, 32, 57, 48, 81,
                118, 160, 6, 174, 103, 197, 42, 230, 239, 84, 88, 38, 40, 202, 203>>,
        S |-> <<17, 165, 131, 222, 213, 228, 184, 121, 100, 199, 127, 246, 56, 91, 154,
                245, 114, 230, 6, 194, 210, 170, 141, 79, 218, 24, 244, 165, 44, 47, 239,
                184>>]>>,
     <<<<<<0, 0, 0, 0, 0, 0, 0, 0, 0, 0, 0, 0, 0, 0, 0, 0, 0, 0, 0, 0, 0, 0, 0, 0, 0, 0,
           0, 0, 0, 0, 0, 5>>,
         <<110, 155, 163, 207, 240, 252, 41, 34, 244, 182, 231, 220, 125, 1, 0, 147, 226,
           230, 18, 208, 40, 196, 157, 158, 194, 76, 80, 80, 175, 19, 119, 151>>>>,
       [R |-> <<82, 170, 56, 73, 104, 23, 191, 71, 75, 119, 106, 19, 13, 168, 135, 102,
                58, 142, 94, 12, 78, 238, 244, 191, 138, 220, 144, 39, 2, 224, 105, 37>>,
        S |-> <<107, 154, 27, 100, 245, 175, 108, 225, 4, 47, 102, 103, 217, 23, 192,
                112, 240, 58, 180, 144, 104, 205, 54, 184, 230, 59, 179, 27, 116, 25, 81,
                203>>]>>,
     <<<<<<0, 0, 0, 0, 0, 0, 0, 0, 0, 0, 0, 0, 0, 0, 0, 0, 0, 0, 0, 0, 0, 0, 0, 0, 0, 0,
           0, 0, 0, 0, 0, 5>>,
         <<111, 13, 82, 85, 18, 225, 205, 103, 149, 80, 180, 104, 10, 255, 199, 131, 241,
           237, 233, 104, 57, 178, 181, 173, 96, 183, 22, 115, 157, 195, 30, 124>>>>,
       [R |-> <<183, 228, 212, 233, 58, 230, 61, 39, 144, 224, 157, 187, 124, 214, 111,
                3, 6, 11, 94, 24, 67, 99, 48, 29, 51, 8, 106, 87, 249, 160, 52, 110>>,
        S |-> <<121, 152, 240, 58, 236, 84, 87, 248, 131, 23, 77, 238, 16, 237, 127, 198,
                116, 177, 49, 139, 217, 250, 170, 179, 54, 146, 62, 174, 100, 112, 91,
                211>>]>>,
     <<<<<<0, 0, 0, 0, 0, 0, 0, 0, 0, 0, 0, 0, 0, 0, 0, 0, 0, 0, 0, 0, 0, 0, 0, 0, 0, 0,
           0, 0, 0, 0, 0, 5>>,
         <<111, 68, 40, 10, 206, 244, 168, 163, 167, 160, 213, 245, 113, 49, 34, 92, 120,
           153, 217, 26, 216, 55, 231, 149, 155, 111, 160, 195, 204, 164, 214, 160>>>>,
       [R |-> <<61, 99, 183, 59, 205, 141, 235, 184, 160, 230, 108, 233, 3, 183, 118,
                136, 146, 253, 24, 224, 66, 71, 163, 78, 82, 180, 26, 205, 161, 195, 205,
                254>>,
        S |-> <<33, 158, 202, 38, 86, 94, 206, 191, 202, 239, 199, 125, 157, 226, 115,
                29, 82, 4, 222, 184, 160, 185, 15, 22, 35, 251, 41, 232, 115, 235, 136,
                179>>]>>,
     <<<<<<0, 0, 0, 0, 0, 0, 0, 0, 0, 0, 0, 0, 0, 0, 0, 0, 0, 0, 0, 0, 0, 0, 0, 0, 0, 0,
           0, 0, 0, 0, 0, 5>>,
         <<120, 132, 64, 111, 38, 237, 3, 152, 187, 59, 117, 4, 212, 227, 202, 140, 161,
           159, 141, 64, 163, 145, 237, 107, 228, 6, 68, 56, 137, 69, 129, 92>>>>,
       [R |-> <<199, 151, 43, 201, 145, 61, 68, 223, 134, 224, 222, 182, 62, 212, 82,
                227, 7, 116, 251, 92, 8, 42, 75, 156, 89, 222, 189, 42, 125, 153, 69,
                160>>,
        S |-> <<121, 5, 193, 125, 50, 64, 71, 12, 8, 251, 225, 92, 89, 3, 213, 129, 90,
                104, 131, 129, 108, 88, 217, 109, 48, 66, 217, 192, 239, 73, 72, 74>>]>>,
     <<<<<<0, 0, 0, 0, 0, 0, 0, 0, 0, 0, 0, 0, 0, 0, 0, 0, 0, 0, 0, 0, 0, 0, 0, 0, 0, 0,
           0, 0, 0, 0, 0, 5>>,
         <<122, 154, 145, 252, 160, 52, 175, 170, 74, 236, 133, 159, 109, 196, 37, 161,
           63, 133, 112, 154, 139, 93, 111, 211, 96, 213, 199, 25, 20, 248, 80, 3>>>>,
       [R |-> <<200, 63, 184, 8, 230, 191, 40, 206, 9, 59, 101, 49, 35, 191, 237, 48, 37,
                212, 113, 190, 251, 69, 25, 215, 62, 74, 131, 193, 147, 179, 223, 158>>,
        S |-> <<6, 44, 136, 24, 6, 135, 134, 186, 144, 42, 51, 120, 8, 129, 162, 174, 18,
                164, 99, 78, 155, 45, 0, 28, 44, 96, 96, 124, 113, 70, 79, 214>>]>>,
     <<<<<<0, 0, 0, 0, 0, 0, 0, 0, 0, 0, 0, 0, 0, 0, 0, 0, 0, 0, 0, 0, 0, 0, 0, 0, 0, 0,
           0, 0, 0, 0, 0, 5>>,
         <<125, 14, 96, 94, 46, 219, 32, 193, 52, 189, 4, 254, 80, 76, 215, 144, 163,
           118, 20, 150, 130, 191, 47, 250, 13, 198, 124, 6, 170, 16, 42, 228>>>>,
       [R |-> <<109, 159, 217, 193, 147, 173, 236, 80, 64, 107, 61, 95, 1, 108, 74, 69,
                157, 126, 68, 235, 253, 57, 97, 190, 140, 152, 135, 76, 31, 224, 116,
                229>>,
        S |-> <<124, 169, 139, 90, 40, 116, 142, 89, 176, 209, 19, 63, 219, 62, 119, 146,
                149, 244, 35, 228, 53, 190, 197, 45, 219, 171, 218, 6, 234, 111, 127,
                182>>]>>,
     <<<<<<0, 0, 0, 0, 0, 0, 0, 0, 0, 0, 0, 0, 0, 0, 0, 0, 0, 0, 0, 0, 0, 0, 0, 0, 0, 0,
           0, 0, 0, 0, 0, 5>>,
         <<13, 174, 198, 72, 210, 142, 6, 215, 94, 150, 177, 214, 242, 19, 71, 167, 217,
           16, 171, 242, 77, 187, 139, 228, 179, 196, 166, 141, 19, 33, 181, 160>>>>,
       [R |-> <<91, 24, 157, 113, 40, 186, 170, 81, 128, 232, 15, 227, 238, 9, 197, 8,
                92, 206, 197, 198, 224, 180, 238, 1, 166, 160, 11, 45, 90, 98, 22, 187>>,
        S |-> <<43, 7, 251, 75, 2, 248, 249, 48, 238, 134, 91, 193, 75, 2, 197, 155, 14,
                219, 64, 56, 222, 180, 131, 194, 57, 92, 208, 145, 35, 184, 142, 240>>]>>,
     <<<<<<0, 0, 0, 0, 0, 0, 0, 0, 0, 0, 0, 0, 0, 0, 0, 0, 0, 0, 0, 0, 0, 0, 0, 0, 0, 0,
           0, 0, 0, 0, 0, 5>>,
         <<136, 145, 13, 48, 233, 231, 195, 240, 246, 101, 243, 175, 203, 135, 206, 251,
           40, 151, 237, 34, 195, 245, 31, 109, 41, 211, 61, 135, 84, 85, 18, 251>>>>,
       [R |-> <<131, 38, 48, 48, 109, 75, 8, 98, 51, 26, 62, 26, 182, 205, 165, 197, 210,
                97, 103, 73, 26, 1, 77, 100, 210, 219, 68, 251, 254, 49, 110, 134>>,
        S |-> <<102, 128, 56, 112, 75, 138, 145, 46, 186, 131, 154, 75, 21, 119, 185,
                174, 254, 157, 214, 136, 194, 45, 118, 39, 93, 245, 1, 242, 49, 242, 158,
                219>>]>>,
     <<<<<<0, 0, 0, 0, 0, 0, 0, 0, 0, 0, 0, 0, 0, 0, 0, 0, 0, 0, 0, 0, 0, 0, 0, 0, 0, 0,
           0, 0, 0, 0, 0, 5>>,
         <<142, 146, 179, 77, 244, 190, 67, 61, 206, 4, 133, 178, 38, 43, 17, 114, 99,
           121, 26, 179, 211, 138, 42, 233, 98, 51, 248, 29, 149, 191, 239, 63>>>>,
       [R |-> <<145, 162, 166, 176, 105, 242, 224, 156, 171, 25, 69, 230, 248, 159, 64,
                137, 172, 160, 182, 128, 197, 56, 153, 139, 179, 139, 168, 35, 220, 177,
                57, 45>>,
        S |-> <<41, 39, 243, 209, 44, 126, 216, 33, 93, 51, 60, 243, 116, 93, 9, 196,
                133, 34, 249, 250, 23, 159, 4, 1, 95, 2, 185, 144, 37, 233, 32, 92>>]>>,
     <<<<<<0, 0, 0, 0, 0, 0, 0, 0, 0, 0, 0, 0, 0, 0, 0, 0, 0, 0, 0, 0, 0, 0, 0, 0, 0, 0,
           0, 0, 0, 0, 0, 5>>,
         <<159, 53, 82, 19, 221, 114, 147, 230, 54, 144, 253, 46, 80, 79, 190, 15, 54,
           103, 254, 191, 220, 159, 219, 200, 111, 61, 65, 189, 38, 77, 146, 157>>>>,
       [R |-> <<122, 52, 179, 11, 63, 45, 162, 82, 212, 177, 201, 166, 13, 146, 53, 37,
                141, 242, 249, 96, 253, 80, 249, 99, 135, 188, 42, 253, 68, 32, 124, 222>>,
        S |-> <<99, 219, 134, 13, 146, 23, 144, 173, 72, 215, 162, 67, 53, 70, 197, 207,
                139, 37, 55, 4, 243, 217, 115, 111, 51, 217, 6, 183, 216, 46, 215, 133>>]>>,
     <<<<<<0, 0, 0, 0, 0, 0, 0, 0, 0, 0, 0, 0, 0, 0, 0, 0, 0, 0, 0, 0, 0, 0, 0, 0, 0, 0,
           0, 0, 0, 0, 0, 5>>,
         <<160, 214, 26, 19, 46, 28, 35, 195, 137, 225, 79, 55, 127, 82, 39, 247, 125,
           221, 158, 78, 206, 194, 83, 81, 171, 2, 47, 161, 128, 20, 18, 186>>>>,
       [R |-> <<29, 221, 42, 239, 196, 154, 255, 89, 226, 221, 14, 99, 58, 229, 92, 115,
                31, 178, 201, 85, 217, 234, 35, 139, 195, 30, 41, 154, 166, 118, 162,
                111>>,
        S |-> <<49, 211, 125, 235, 154, 33, 150, 136, 243, 39, 86, 10, 64, 222, 156, 13,
                134, 223, 187, 47, 57, 189, 2, 4, 242, 58, 167, 164, 156, 21, 102, 155>>]>>,
     <<<<<<0, 0, 0, 0, 0, 0, 0, 0, 0, 0, 0, 0, 0, 0, 0, 0, 0, 0, 0, 0, 0, 0, 0, 0, 0, 0,
           0, 0, 0, 0, 0, 5>>,
         <<161, 234, 20, 106, 201, 82, 204, 93, 11, 44, 12, 223, 58, 185, 201, 50, 63, 5,
           76, 81, 65, 131, 52, 210, 144, 165, 155, 160, 200, 5, 194, 146>>>>,
       [R |-> <<47, 155, 140, 99, 117, 148, 184, 255, 203, 172, 15, 165, 227, 118, 100,
                220, 100, 160, 34, 145, 216, 217, 4, 168, 230, 20, 115, 219, 125, 204,
                102, 112>>,
        S |-> <<115, 70, 193, 114, 240, 33, 34, 138, 170, 26, 195, 21, 60, 26, 131, 34,
                9, 42, 214, 64, 15, 60, 123, 237, 10, 145, 248, 107, 126, 165, 22, 80>>]>>,
     <<<<<<0, 0, 0, 0, 0, 0, 0, 0, 0, 0, 0, 0, 0, 0, 0, 0, 0, 0, 0, 0, 0, 0, 0, 0, 0, 0,
           0, 0, 0, 0, 0, 5>>,
         <<162, 173, 87, 250, 118, 138, 18, 128, 130, 43, 143, 234, 17, 236, 246, 230,
           159, 192, 217, 157, 79, 65, 3, 166, 8, 9, 141, 62, 208, 172, 68, 17>>>>,
       [R |-> <<87, 239, 131, 58, 90, 220, 27, 210, 156, 70, 208, 20, 235, 21, 208, 174,
                85, 45, 132, 196, 231, 250, 221, 51, 229, 11, 129, 215, 107, 93, 64, 33>>,
        S |-> <<4, 198, 62, 224, 196, 112, 197, 169, 143, 220, 20, 36, 132, 190, 61, 16,
                189, 138, 55, 70, 248, 8, 237, 206, 29, 140, 205, 150, 204, 133, 36, 237>>]>>,
     <<<<<<0, 0, 0, 0, 0, 0, 0, 0, 0, 0, 0, 0, 0, 0, 0, 0, 0, 0, 0, 0, 0, 0, 0, 0, 0, 0,
           0, 0, 0, 0, 0, 5>>,
         <<164, 14, 250, 224, 37, 5, 207, 185, 52, 212, 167, 120, 10, 219, 116, 171, 89,
           62, 253, 226, 203, 159, 240, 195, 208, 58, 99, 44, 94, 159, 126, 69>>>>,
       [R |-> <<254, 219, 172, 177, 63, 87, 178, 156, 123, 186, 229, 185, 177, 167, 82,
                138, 112, 68, 21, 212, 155, 157, 108, 179, 170, 76, 114, 202, 95, 245,
                106, 224>>,
        S |-> <<91, 182, 87, 192, 31, 145, 114, 64, 233, 158, 87, 180, 20, 21, 244, 243,
                182, 218, 243, 156, 193, 77, 73, 123, 186, 6, 188, 147, 133, 183, 193,
                83>>]>>,
     <<<<<<0, 0, 0, 0, 0, 0, 0, 0, 0, 0, 0, 0, 0, 0, 0, 0, 0, 0, 0, 0, 0, 0, 0, 0, 0, 0,
           0, 0, 0, 0, 0, 5>>,
         <<171, 233, 99, 17, 195, 192, 251, 203, 141, 248, 220, 210, 200, 15, 11, 131,
           192, 127, 11, 157, 75, 40, 172, 170, 190, 87, 250, 116, 53, 124, 59, 111>>>>,
       [R |-> <<170, 164, 145, 198, 215, 181, 109, 0, 6, 1, 213, 86, 222, 188, 248, 109,
                93, 35, 65, 226, 138, 184, 97, 178, 164, 113, 175, 170, 100, 95, 140, 6>>,
        S |-> <<23, 79, 110, 224, 151, 228, 236, 30, 3, 109, 177, 5, 81, 55, 243, 252,
                71, 203, 206, 52, 39, 144, 129, 127, 42, 201, 142, 199, 194, 127, 247,
                139>>]>>>>
    \o <<<<<<<<0, 0, 0, 0, 0, 0, 0, 0, 0, 0, 0, 0, 0, 0, 0, 0, 0, 0, 0, 0, 0, 0, 0, 0, 0, 0,
           0, 0, 0, 0, 0, 5>>,
         <<172, 224, 180, 179, 230, 182, 46, 92, 71, 129, 230, 221, 86, 101, 140, 195,
           82, 108, 49, 94, 122, 19, 153, 146, 149, 167, 93, 94, 8, 114, 225, 7>>>>,
       [R |-> <<124, 148, 22, 238, 55, 54, 110, 23, 126, 5, 211, 220, 161, 95, 77, 190,
                157, 74, 181, 138, 209, 69, 206, 69, 24, 11, 204, 49, 125, 6, 64, 116>>,
        S |-> <<28, 49, 153, 36, 89, 0, 75, 1, 25, 7, 151, 170, 162, 148, 132, 221, 1,
                191, 90, 136, 10, 141, 199, 118, 233, 128, 105, 212, 102, 149, 55, 62>>]>>,
     <<<<<<0, 0, 0, 0, 0, 0, 0, 0, 0, 0, 0, 0, 0, 0, 0, 0, 0, 0, 0, 0, 0, 0, 0, 0, 0, 0,
           0, 0, 0, 0, 0, 5>>,
         <<180, 106, 164, 143, 3, 109, 222, 138, 86, 35, 194, 237, 77, 187, 254, 194,
           108, 99, 97, 3, 166, 144, 207, 209, 115, 119, 101, 157, 89, 163, 7, 40>>>>,
       [R |-> <<170, 5, 104, 235, 26, 215, 111, 207, 186, 106, 88, 26, 16, 178, 106, 9,
                161, 207, 169, 142, 120, 147, 68, 230, 134, 195, 122, 129, 199, 141, 76,
                30>>,
        S |-> <<67, 56, 113, 228, 120, 13, 66, 161, 40, 70, 37, 42, 16, 105, 133, 8, 107,
                176, 101, 240, 129, 196, 130, 108, 209, 211, 103, 161, 156, 119, 46, 189>>]>>,
     <<<<<<0, 0, 0, 0, 0, 0, 0, 0, 0, 0, 0, 0, 0, 0, 0, 0, 0, 0, 0, 0, 0, 0, 0, 0, 0, 0,
           0, 0, 0, 0, 0, 5>>,
         <<186, 57, 34, 53, 54, 129, 35, 254, 129, 41, 67, 52, 164, 6, 187, 81, 206, 195,
           133, 245, 206, 114, 153, 124, 189, 15, 214, 147, 72, 53, 218, 230>>>>,
       [R |-> <<11, 107, 134, 82, 224, 185, 251, 246, 166, 201, 209, 241, 36, 153, 34,
                57, 183, 119, 113, 174, 240, 53, 169, 41, 36, 77, 177, 210, 50, 148, 44,
                103>>,
        S |-> <<2, 115, 62, 4, 168, 16, 131, 146, 5, 130, 3, 197, 186, 6, 224, 77, 225,
                7, 78, 111, 171, 131, 213, 94, 76, 141, 127, 76, 47, 181, 217, 73>>]>>,
     <<<<<<0, 0, 0, 0, 0, 0, 0, 0, 0, 0, 0, 0, 0, 0, 0, 0, 0, 0, 0, 0, 0, 0, 0, 0, 0, 0,
           0, 0, 0, 0, 0, 5>>,
         <<190, 225, 5, 153, 252, 101, 50, 212, 249, 0, 220, 37, 203, 168, 79, 73, 56,
           204, 131, 245, 189, 27, 188, 172, 65, 238, 188, 162, 37, 178, 232, 156>>>>,
       [R |-> <<39, 26, 77, 109, 160, 67, 89, 194, 22, 128, 213, 35, 176, 44, 199, 35,
                248, 133, 187, 88, 95, 255, 159, 64, 91, 90, 106, 146, 162, 161, 101,
                218>>,
        S |-> <<107, 245, 228, 180, 180, 207, 113, 220, 131, 138, 245, 46, 136, 178, 212,
                172, 216, 15, 62, 80, 31, 162, 143, 48, 83, 1, 137, 194, 196, 235, 162,
                80>>]>>,
     <<<<<<0, 0, 0, 0, 0, 0, 0, 0, 0, 0, 0, 0, 0, 0, 0, 0, 0, 0, 0, 0, 0, 0, 0, 0, 0, 0,
           0, 0, 0, 0, 0, 5>>,
         <<2, 21, 250, 252, 101, 100, 23, 12, 240, 71, 208, 245, 199, 89, 149, 199, 111,
           165, 45, 153, 78, 115, 157, 172, 82, 136, 182, 209, 196, 129, 21, 191>>>>,
       [R |-> <<142, 7, 28, 101, 43, 98, 190, 210, 46, 238, 236, 212, 60, 149, 160, 8,
                201, 215, 42, 55, 101, 58, 28, 75, 125, 33, 193, 162, 96, 124, 20, 5>>,
        S |-> <<37, 226, 82, 175, 244, 248, 92, 230, 250, 196, 222, 105, 17, 180, 211,
                129, 148, 152, 241, 23, 80, 159, 24, 50, 50, 242, 183, 228, 183, 163,
                210, 8>>]>>,
     <<<<<<0, 0, 0, 0, 0, 0, 0, 0, 0, 0, 0, 0, 0, 0, 0, 0, 0, 0, 0, 0, 0, 0, 0, 0, 0, 0,
           0, 0, 0, 0, 0, 5>>,
         <<20, 209, 24, 58, 61, 187, 27, 8, 55, 17, 159, 200, 56, 49, 194, 220, 28, 215,
           45, 159, 202, 214, 124, 148, 225, 190, 46, 75, 151, 130, 61, 134>>>>,
       [R |-> <<30, 199, 146, 23, 77, 219, 76, 119, 250, 61, 245, 141, 78, 250, 78, 143,
                229, 40, 191, 54, 138, 249, 2, 244, 29, 141, 218, 117, 171, 118, 74, 39>>,
        S |-> <<67, 125, 172, 200, 102, 93, 201, 174, 177, 51, 129, 122, 232, 87, 192,
                176, 252, 82, 144, 117, 249, 47, 52, 70, 7, 80, 144, 183, 222, 113, 208,
                67>>]>>,
     <<<<<<0, 0, 0, 0, 0, 0, 0, 0, 0, 0, 0, 0, 0, 0, 0, 0, 0, 0, 0, 0, 0, 0, 0, 0, 0, 0,
           0, 0, 0, 0, 0, 5>>,
         <<205, 143, 48, 223, 57, 177, 59, 62, 89, 70, 97, 145, 157, 143, 128, 204, 39,
           179, 65, 183, 223, 157, 160, 230, 78, 226, 41, 240, 17, 255, 24, 224>>>>,
       [R |-> <<244, 235, 143, 84, 13, 86, 197, 141, 88, 94, 27, 186, 152, 36, 60, 147,
                149, 23, 249, 118, 194, 65, 39, 63, 97, 205, 129, 160, 139, 30, 192, 122>>,
        S |-> <<77, 42, 219, 74, 213, 250, 2, 2, 63, 202, 120, 188, 78, 230, 253, 107,
                158, 195, 203, 74, 191, 51, 29, 85, 224, 7, 208, 64, 155, 161, 211, 161>>]>>,
     <<<<<<0, 0, 0, 0, 0, 0, 0, 0, 0, 0, 0, 0, 0, 0, 0, 0, 0, 0, 0, 0, 0, 0, 0, 0, 0, 0,
           0, 0, 0, 0, 0, 5>>,
         <<205, 251, 24, 100, 98, 118, 162, 172, 64, 219, 34, 19, 104, 190, 149, 109,
           167, 249, 164, 65, 110, 191, 241, 137, 245, 246, 119, 43, 131, 243, 77, 111>>>>,
       [R |-> <<139, 106, 74, 124, 192, 38, 67, 150, 76, 6, 192, 218, 50, 143, 126, 114,
                136, 75, 94, 2, 181, 191, 249, 77, 179, 194, 234, 177, 219, 20, 214, 190>>,
        S |-> <<23, 30, 153, 90, 7, 255, 77, 0, 126, 203, 252, 1, 64, 38, 213, 76, 24,
                146, 18, 211, 191, 52, 93, 5, 138, 179, 176, 130, 208, 153, 104, 206>>]>>,
     <<<<<<0, 0, 0, 0, 0, 0, 0, 0, 0, 0, 0, 0, 0, 0, 0, 0, 0, 0, 0, 0, 0, 0, 0, 0, 0, 0,
           0, 0, 0, 0, 0, 5>>,
         <<209, 62, 4, 213, 84, 151, 25, 120, 125, 183, 214, 25, 227, 185, 137, 232, 37,
           226, 112, 223, 206, 72, 188, 215, 211, 16, 128, 106, 223, 249, 31, 128>>>>,
       [R |-> <<146, 196, 125, 75, 112, 238, 69, 84, 181, 168, 230, 124, 212, 172, 128,
                139, 221, 254, 118, 27, 140, 94, 128, 152, 255, 218, 35, 8, 14, 97, 38,
                129>>,
        S |-> <<13, 243, 190, 175, 27, 23, 86, 68, 235, 203, 130, 39, 76, 74, 21, 85,
                213, 218, 127, 157, 141, 112, 98, 2, 203, 246, 236, 63, 209, 105, 12,
                126>>]>>,
     <<<<<<0, 0, 0, 0, 0, 0, 0, 0, 0, 0, 0, 0, 0, 0, 0, 0, 0, 0, 0, 0, 0, 0, 0, 0, 0, 0,
           0, 0, 0, 0, 0, 5>>,
         <<216, 174, 164, 147, 132, 166, 248, 67, 119, 101, 205, 187, 119, 57, 210, 230,
           20, 218, 203, 172, 106, 64, 132, 235, 192, 210, 186, 170, 227, 22, 177, 139>>>>,
       [R |-> <<124, 229, 63, 152, 50, 240, 73, 163, 36, 109, 26, 38, 14, 131, 171, 26,
                140, 233, 208, 76, 22, 96, 177, 65, 84, 198, 8, 155, 69, 90, 177, 60>>,
        S |-> <<44, 239, 232, 71, 63, 237, 165, 78, 243, 218, 169, 146, 158, 235, 166,
                29, 126, 3, 77, 168, 228, 53, 235, 2, 209, 211, 182, 44, 213, 74, 140,
                199>>]>>,
     <<<<<<0, 0, 0, 0, 0, 0, 0, 0, 0, 0, 0, 0, 0, 0, 0, 0, 0, 0, 0, 0, 0, 0, 0, 0, 0, 0,
           0, 0, 0, 0, 0, 5>>,
         <<219, 27, 193, 170, 214, 182, 97, 82, 106, 19, 35, 132, 35, 116, 11, 195, 157,
           161, 97, 92, 25, 59, 190, 207, 89, 170, 134, 225, 76, 98, 186, 117>>>>,
       [R |-> <<72, 27, 117, 9, 242, 25, 133, 149, 14, 127, 138, 99, 0, 211, 124, 235,
                114, 142, 53, 47, 6, 158, 98, 11, 240, 101, 145, 201, 72, 177, 26, 187>>,
        S |-> <<42, 11, 24, 184, 87, 139, 74, 241, 201, 192, 81, 83, 110, 165, 59, 26,
                177, 0, 114, 37, 215, 39, 253, 136, 109, 86, 116, 192, 151, 46, 63, 20>>]>>,
     <<<<<<0, 0, 0, 0, 0, 0, 0, 0, 0, 0, 0, 0, 0, 0, 0, 0, 0, 0, 0, 0, 0, 0, 0, 0, 0, 0,
           0, 0, 0, 0, 0, 5>>,
         <<220, 186, 137, 137, 13, 71, 184, 49, 28, 0, 118, 187, 59, 156, 168, 30, 228,
           213, 181, 135, 157, 14, 199, 4, 89, 229, 55, 209, 73, 232, 77, 232>>>>,
       [R |-> <<196, 147, 21, 186, 46, 90, 94, 205, 153, 183, 190, 52, 78, 111, 128, 132,
                255, 187, 200, 15, 200, 221, 40, 168, 219, 102, 31, 20, 28, 127, 247, 0>>,
        S |-> <<23, 247, 188, 185, 76, 46, 142, 21, 54, 116, 113, 142, 191, 219, 135,
                106, 219, 12, 255, 242, 77, 51, 4, 53, 237, 142, 72, 210, 7, 40, 232,
                105>>]>>,
     <<<<<<0, 0, 0, 0, 0, 0, 0, 0, 0, 0, 0, 0, 0, 0, 0, 0, 0, 0, 0, 0, 0, 0, 0, 0, 0, 0,
           0, 0, 0, 0, 0, 5>>,
         <<227, 251, 166, 91, 138, 115, 225, 141, 125, 67, 2, 40, 45, 64, 70, 134, 79,
           91, 178, 39, 119, 3, 120, 135, 248, 119, 170, 217, 72, 11, 43, 138>>>>,
       [R |-> <<227, 105, 242, 185, 241, 5, 147, 176, 61, 210, 214, 30, 119, 165, 88,
                115, 27, 227, 62, 15, 231, 109, 238, 194, 252, 165, 232, 30, 62, 210,
                124, 144>>,
        S |-> <<91, 231, 31, 190, 30, 144, 212, 84, 84, 78, 10, 242, 23, 134, 227, 91,
                160, 41, 133, 103, 255, 156, 150, 254, 142, 228, 11, 104, 98, 15, 53, 48>>]>>,
     <<<<<<0, 0, 0, 0, 0, 0, 0, 0, 0, 0, 0, 0, 0, 0, 0, 0, 0, 0, 0, 0, 0, 0, 0, 0, 0, 0,
           0, 0, 0, 0, 0, 5>>,
         <<229, 241, 244, 53, 109, 12, 238, 153, 233, 187, 183, 30, 123, 8, 157, 165, 75,
           218, 217, 68, 131, 201, 236, 36, 135, 21, 80, 244, 28, 163, 151, 173>>>>,
       [R |-> <<26, 74, 105, 123, 222, 8, 198, 30, 156, 35, 16, 10, 194, 131, 189, 84, 6,
                230, 40, 15, 43, 132, 46, 176, 74, 243, 181, 153, 141, 129, 172, 144>>,
        S |-> <<113, 137, 158, 237, 255, 119, 105, 48, 124, 242, 62, 96, 30, 175, 104,
                250, 102, 115, 68, 49, 29, 174, 226, 54, 187, 148, 172, 8, 225, 240, 139,
                138>>]>>,
     <<<<<<0, 0, 0, 0, 0, 0, 0, 0, 0, 0, 0, 0, 0, 0, 0, 0, 0, 0, 0, 0, 0, 0, 0, 0, 0, 0,
           0, 0, 0, 0, 0, 5>>,
         <<231, 229, 163, 238, 125, 72, 127, 0, 57, 25, 187, 149, 80, 2, 245, 156, 75,
           28, 171, 115, 84, 7, 115, 41, 230, 244, 25, 104, 220, 54, 103, 3>>>>,
       [R |-> <<1, 168, 135, 220, 108, 12, 53, 46, 135, 216, 96, 163, 142, 152, 34, 71,
                24, 229, 242, 254, 188, 114, 135, 125, 4, 151, 23, 77, 64, 65, 177, 23>>,
        S |-> <<113, 19, 37, 60, 243, 4, 175, 112, 192, 205, 237, 180, 108, 43, 93, 149,
                221, 5, 42, 4, 75, 188, 155, 227, 72, 92, 205, 95, 186, 208, 240, 28>>]>>,
     <<<<<<0, 0, 0, 0, 0, 0, 0, 0, 0, 0, 0, 0, 0, 0, 0, 0, 0, 0, 0, 0, 0, 0, 0, 0, 0, 0,
           0, 0, 0, 0, 0, 5>>,
         <<233, 134, 49, 123, 36, 48, 237, 63, 71, 23, 78, 155, 253, 186, 246, 159, 225,
           106, 71, 137, 82, 192, 220, 194, 29, 145, 68, 154, 131, 112, 143, 54>>>>,
       [R |-> <<207, 37, 176, 232, 22, 32, 204, 144, 147, 156, 102, 170, 18, 171, 69,
                126, 153, 63, 222, 146, 236, 73, 1, 234, 154, 139, 213, 22, 65, 179, 71,
                5>>,
        S |-> <<5, 224, 9, 112, 97, 145, 66, 154, 186, 23, 185, 209, 9, 110, 228, 79,
                209, 175, 42, 211, 5, 168, 174, 39, 204, 255, 113, 248, 132, 102, 170,
                59>>]>>>>
    \o <<<<<<<<0, 0, 0, 0, 0, 0, 0, 0, 0, 0, 0, 0, 0, 0, 0, 0, 0, 0, 0, 0, 0, 0, 0, 0, 0, 0,
           0, 0, 0, 0, 0, 5>>,
         <<238, 65, 112, 238, 110, 188, 111, 63, 25, 186, 250, 218, 201, 8, 160, 181,
           127, 39, 100, 116, 75, 61, 37, 165, 238, 98, 97, 227, 1, 64, 235, 232>>>>,
       [R |-> <<178, 44, 77, 219, 65, 199, 232, 249, 83, 96, 251, 136, 109, 188, 68, 239,
                63, 201, 203, 34, 246, 10, 105, 16, 26, 238, 23, 45, 112, 126, 188, 202>>,
        S |-> <<14, 162, 241, 141, 129, 186, 249, 176, 91, 116, 205, 145, 180, 100, 198,
                102, 115, 87, 221, 116, 14, 117, 162, 250, 120, 130, 28, 212, 69, 86, 68,
                131>>]>>,
     <<<<<<0, 0, 0, 0, 0, 0, 0, 0, 0, 0, 0, 0, 0, 0, 0, 0, 0, 0, 0, 0, 0, 0, 0, 0, 0, 0,
           0, 0, 0, 0, 0, 5>>,
         <<243, 139, 170, 27, 2, 229, 65, 193, 6, 220, 186, 43, 69, 95, 117, 215, 29,
           126, 100, 71, 72, 64, 141, 76, 157, 89, 105, 46, 153, 120, 168, 43>>>>,
       [R |-> <<143, 77, 26, 6, 34, 22, 247, 136, 157, 61, 213, 248, 32, 248, 196, 226,
                95, 245, 0, 2, 107, 115, 129, 64, 20, 7, 130, 93, 240, 94, 116, 218>>,
        S |-> <<63, 178, 115, 173, 113, 114, 37, 52, 186, 10, 67, 32, 24, 102, 131, 241,
                99, 182, 172, 211, 237, 83, 2, 133, 84, 44, 126, 10, 31, 169, 31, 79>>]>>,
     <<<<<<0, 0, 0, 0, 0, 0, 0, 0, 0, 0, 0, 0, 0, 0, 0, 0, 0, 0, 0, 0, 0, 0, 0, 0, 0, 0,
           0, 0, 0, 0, 0, 5>>,
         <<244, 232, 53, 190, 93, 106, 163, 234, 101, 203, 74, 122, 207, 36, 112, 43,
           250, 21, 234, 82, 77, 42, 40, 100, 254, 93, 10, 22, 111, 122, 149, 206>>>>,
       [R |-> <<203, 48, 234, 181, 151, 63, 93, 237, 26, 155, 252, 73, 176, 69, 30, 211,
                83, 236, 31, 9, 81, 91, 204, 226, 71, 163, 245, 234, 7, 67, 68, 148>>,
        S |-> <<121, 11, 238, 173, 114, 199, 226, 54, 239, 158, 111, 71, 210, 234, 213,
                53, 16, 124, 103, 172, 115, 210, 58, 131, 101, 39, 193, 109, 51, 52, 163,
                66>>]>>,
     <<<<<<0, 0, 0, 0, 0, 0, 0, 0, 0, 0, 0, 0, 0, 0, 0, 0, 0, 0, 0, 0, 0, 0, 0, 0, 0, 0,
           0, 0, 0, 0, 0, 5>>,
         <<247, 53, 127, 107, 209, 80, 73, 92, 245, 60, 34, 87, 41, 152, 62, 37, 88, 244,
           91, 42, 190, 240, 145, 245, 240, 87, 40, 174, 108, 94, 131, 87>>>>,
       [R |-> <<177, 213, 83, 21, 141, 84, 138, 139, 47, 196, 250, 69, 94, 166, 51, 210,
                136, 120, 11, 81, 147, 188, 90, 65, 200, 130, 14, 176, 206, 114, 246,
                108>>,
        S |-> <<29, 235, 232, 139, 206, 155, 183, 148, 128, 112, 50, 162, 130, 32, 199,
                188, 185, 160, 139, 85, 78, 226, 157, 95, 83, 86, 242, 121, 239, 176, 67,
                27>>]>>,
     <<<<<<0, 0, 0, 0, 0, 0, 0, 0, 0, 0, 0, 0, 0, 0, 0, 0, 0, 0, 0, 0, 0, 0, 0, 0, 0, 0,
           0, 0, 0, 0, 0, 5>>,
         <<25, 20, 81, 34, 153, 218, 73, 104, 132, 156, 252, 201, 177, 231, 143, 206, 55,
           70, 8, 60, 87, 125, 222, 142, 61, 159, 21, 105, 212, 212, 180, 200>>>>,
       [R |-> <<30, 116, 79, 108, 64, 104, 56, 122, 194, 194, 121, 215, 34, 31, 164, 125,
                71, 32, 226, 131, 161, 47, 215, 170, 53, 179, 187, 194, 85, 142, 91, 89>>,
        S |-> <<76, 9, 222, 94, 81, 116, 93, 251, 55, 69, 212, 171, 103, 221, 45, 1, 33,
                120, 103, 58, 4, 192, 106, 117, 183, 36, 69, 98, 82, 41, 90, 237>>]>>,
     <<<<<<0, 0, 0, 0, 0, 0, 0, 0, 0, 0, 0, 0, 0, 0, 0, 0, 0, 0, 0, 0, 0, 0, 0, 0, 0, 0,
           0, 0, 0, 0, 0, 5>>,
         <<250, 232, 97, 45, 44, 254, 103, 196, 240, 237, 107, 215, 45, 21, 113, 51, 61,
           106, 136, 210, 250, 112, 65, 46, 123, 4, 201, 110, 82, 54, 245, 187>>>>,
       [R |-> <<47, 234, 137, 133, 11, 81, 73, 249, 255, 153, 95, 174, 167, 172, 151,
                209, 219, 156, 106, 148, 209, 8, 9, 228, 244, 20, 168, 221, 80, 125, 208,
                255>>,
        S |-> <<82, 244, 64, 191, 214, 57, 191, 219, 19, 89, 181, 214, 219, 185, 216,
                221, 177, 162, 127, 93, 182, 249, 101, 102, 17, 212, 80, 197, 201, 8,
                207, 150>>]>>,
     <<<<<<0, 0, 0, 0, 0, 0, 0, 0, 0, 0, 0, 0, 0, 0, 0, 0, 0, 0, 0, 0, 0, 0, 0, 0, 0, 0,
           0, 0, 0, 0, 0, 5>>,
         <<255, 20, 166, 55, 181, 124, 185, 211, 185, 81, 85, 47, 195, 154, 17, 202, 225,
           138, 59, 137, 50, 255, 24, 27, 55, 93, 96, 65, 31, 93, 39, 209>>>>,
       [R |-> <<20, 91, 185, 92, 26, 231, 232, 252, 28, 251, 161, 196, 153, 170, 218,
                137, 5, 190, 65, 88, 65, 109, 52, 20, 132, 208, 162, 52, 227, 38, 183, 8>>,
        S |-> <<121, 146, 254, 25, 249, 195, 234, 24, 130, 49, 197, 104, 48, 195, 221,
                232, 175, 95, 45, 249, 161, 8, 65, 197, 18, 130, 201, 196, 3, 243, 44,
                235>>]>>,
     <<<<<<0, 0, 0, 0, 0, 0, 0, 0, 0, 0, 0, 0, 0, 0, 0, 0, 0, 0, 0, 0, 0, 0, 0, 0, 0, 0,
           0, 0, 0, 0, 0, 5>>,
         <<26, 141, 215, 15, 94, 209, 94, 24, 77, 200, 59, 62, 74, 234, 169, 109, 219,
           155, 240, 253, 255, 32, 96, 14, 211, 20, 40, 201, 12, 128, 254, 38>>>>,
       [R |-> <<8, 5, 61, 181, 230, 140, 36, 169, 83, 129, 104, 142, 6, 164, 190, 11,
                254, 148, 4, 99, 202, 188, 217, 230, 191, 16, 84, 151, 203, 195, 14, 38>>,
        S |-> <<56, 168, 170, 158, 5, 241, 186, 145, 81, 120, 42, 52, 32, 66, 223, 2,
                191, 1, 7, 49, 139, 25, 183, 25, 135, 202, 103, 147, 108, 77, 10, 20>>]>>,
     <<<<<<0, 0, 0, 0, 0, 0, 0, 0, 0, 0, 0, 0, 0, 0, 0, 0, 0, 0, 0, 0, 0, 0, 0, 0, 0, 0,
           0, 0, 0, 0, 0, 5>>,
         <<28, 76, 154, 17, 166, 134, 103, 114, 182, 230, 177, 102, 67, 122, 200, 133,
           136, 71, 6, 179, 183, 87, 45, 140, 31, 185, 204, 58, 47, 68, 109, 44>>>>,
       [R |-> <<20, 168, 104, 74, 88, 228, 202, 248, 116, 188, 74, 134, 84, 117, 101,
                144, 126, 232, 198, 248, 221, 67, 230, 162, 131, 85, 207, 219, 150, 243,
                92, 184>>,
        S |-> <<8, 244, 249, 36, 179, 125, 167, 156, 51, 110, 180, 156, 208, 135, 131,
                116, 222, 169, 13, 63, 150, 241, 33, 188, 174, 198, 156, 90, 65, 250,
                213, 248>>]>>,
     <<<<<<0, 0, 0, 0, 0, 0, 0, 0, 0, 0, 0, 0, 0, 0, 0, 0, 0, 0, 0, 0, 0, 0, 0, 0, 0, 0,
           0, 0, 0, 0, 0, 5>>,
         <<29, 5, 178, 189, 52, 66, 171, 204, 1, 243, 141, 183, 23, 101, 200, 135, 50,
           164, 46, 150, 139, 203, 106, 85, 163, 203, 103, 106, 29, 186, 13, 130>>>>,
       [R |-> <<159, 219, 124, 252, 145, 116, 121, 73, 137, 161, 132, 230, 244, 221, 5,
                123, 246, 5, 136, 200, 152, 24, 168, 70, 159, 141, 228, 13, 244, 85, 132,
                5>>,
        S |-> <<41, 185, 201, 153, 218, 165, 34, 168, 5, 169, 114, 114, 239, 19, 162,
                234, 244, 23, 248, 224, 82, 149, 199, 100, 134, 222, 23, 27, 223, 18, 1,
                10>>]>>,
     <<<<<<0, 0, 0, 0, 0, 0, 0, 0, 0, 0, 0, 0, 0, 0, 0, 0, 0, 0, 0, 0, 0, 0, 0, 0, 0, 0,
           0, 0, 0, 0, 0, 5>>,
         <<37, 23, 238, 96, 4, 189, 101, 113, 88, 7, 223, 135, 125, 88, 125, 38, 49, 50,
           135, 4, 251, 236, 95, 70, 217, 53, 86, 37, 49, 134, 224, 101>>>>,
       [R |-> <<153, 18, 173, 172, 82, 196, 152, 64, 190, 9, 95, 14, 229, 77, 86, 44,
                136, 129, 187, 57, 203, 242, 157, 27, 208, 116, 193, 189, 86, 213, 107,
                219>>,
        S |-> <<94, 115, 1, 35, 100, 143, 193, 14, 253, 86, 27, 63, 36, 149, 36, 138, 56,
                97, 94, 10, 62, 11, 46, 120, 34, 181, 210, 69, 206, 36, 53, 81>>]>>,
     <<<<<<0, 0, 0, 0, 0, 0, 0, 0, 0, 0, 0, 0, 0, 0, 0, 0, 0, 0, 0, 0, 0, 0, 0, 0, 0, 0,
           0, 0, 0, 0, 0, 5>>,
         <<39, 228, 152, 26, 125, 143, 88, 6, 130, 243, 79, 52, 86, 233, 191, 148, 24,
           118, 184, 131, 91, 30, 139, 203, 249, 99, 41, 110, 38, 120, 51, 62>>>>,
       [R |-> <<53, 56, 190, 19, 190, 34, 212, 55, 93, 193, 38, 58, 181, 247, 235, 132,
                91, 206, 237, 250, 138, 27, 208, 78, 151, 119, 189, 175, 102, 119, 10,
                223>>,
        S |-> <<47, 220, 155, 119, 215, 136, 124, 65, 35, 213, 79, 85, 47, 203, 100, 157,
                167, 80, 21, 16, 128, 92, 99, 133, 156, 119, 214, 247, 136, 7, 151, 174>>]>>,
     <<<<<<0, 0, 0, 0, 0, 0, 0, 0, 0, 0, 0, 0, 0, 0, 0, 0, 0, 0, 0, 0, 0, 0, 0, 0, 0, 0,
           0, 0, 0, 0, 0, 5>>,
         <<4, 56, 207, 44, 162, 229, 137, 114, 190, 228, 41, 211, 165, 238, 113, 91, 112,
           129, 199, 140, 17, 237, 143, 157, 125, 90, 221, 190, 216, 45, 88, 237>>>>,
       [R |-> <<19, 35, 69, 221, 247, 172, 222, 121, 127, 224, 152, 174, 9, 125, 83, 228,
                85, 236, 61, 179, 0, 240, 254, 154, 69, 72, 90, 150, 220, 225, 198, 85>>,
        S |-> <<28, 64, 194, 82, 35, 215, 49, 136, 68, 139, 242, 212, 103, 169, 175, 61,
                98, 27, 143, 173, 157, 168, 162, 244, 253, 181, 209, 38, 130, 28, 37,
                215>>]>>,
     <<<<<<0, 0, 0, 0, 0, 0, 0, 0, 0, 0, 0, 0, 0, 0, 0, 0, 0, 0, 0, 0, 0, 0, 0, 0, 0, 0,
           0, 0, 0, 0, 0, 5>>,
         <<44, 34, 125, 208, 119, 55, 98, 144, 6, 106, 53, 203, 180, 167, 217, 18, 57,
           49, 162, 115, 158, 130, 242, 208, 148, 147, 178, 60, 111, 103, 108, 175>>>>,
       [R |-> <<233, 120, 209, 118, 41, 169, 199, 36, 203, 11, 178, 143, 171, 85, 156,
                248, 233, 254, 116, 61, 21, 201, 87, 191, 70, 181, 156, 176, 36, 4, 229,
                138>>,
        S |-> <<119, 152, 140, 34, 1, 117, 38, 172, 28, 5, 159, 83, 229, 248, 102, 177,
                62, 115, 13, 147, 42, 53, 66, 188, 3, 95, 155, 211, 142, 47, 75, 145>>]>>,
     <<<<<<0, 0, 0, 0, 0, 0, 0, 0, 0, 0, 0, 0, 0, 0, 0, 0, 0, 0, 0, 0, 0, 0, 0, 0, 0, 0,
           0, 0, 0, 0, 0, 5>>,
         <<47, 130, 138, 148, 69, 229, 182, 213, 251, 190, 170, 129, 196, 132, 17, 209,
           23, 236, 74, 201, 155, 117, 243, 76, 239, 4, 143, 253, 168, 225, 32, 198>>>>,
       [R |-> <<208, 107, 235, 158, 85, 147, 91, 199, 184, 50, 140, 7, 88, 27, 166, 97,
                203, 77, 52, 168, 235, 8, 7, 186, 49, 103, 166, 97, 59, 197, 255, 63>>,
        S |-> <<41, 214, 70, 5, 66, 224, 112, 76, 56, 97, 213, 208, 188, 121, 119, 28,
                172, 59, 163, 156, 133, 83, 54, 125, 213, 73, 40, 18, 97, 108, 128, 248>>]>>,
     <<<<<<0, 0, 0, 0, 0, 0, 0, 0, 0, 0, 0, 0, 0, 0, 0, 0, 0, 0, 0, 0, 0, 0, 0, 0, 0, 0,
           0, 0, 0, 0, 0, 5>>,
         <<47, 137, 72, 240, 231, 126, 207, 219, 185, 51, 215, 240, 80, 19, 215, 50, 114,
           47, 179, 129, 167, 219, 187, 23, 146, 159, 216, 2, 165, 228, 138, 135>>>>,
       [R |-> <<28, 211, 23, 166, 60, 102, 0, 110, 42, 173, 222, 238, 163, 177, 52, 150,
                206, 228, 239, 189, 116, 41, 49, 230, 48, 120, 217, 211, 189, 37, 202,
                196>>,
        S |-> <<12, 129, 224, 142, 1, 33, 77, 163, 193, 34, 2, 120, 175, 134, 153, 27,
                161, 210, 118, 171, 101, 188, 241, 97, 41, 43, 115, 78, 25, 5, 100, 165>>]>>>>
    \o <<<<<<<<0, 0, 0, 0, 0, 0, 0, 0, 0, 0, 0, 0, 0, 0, 0, 0, 0, 0, 0, 0, 0, 0, 0, 0, 0, 0,
           0, 0, 0, 0, 0, 5>>,
         <<49, 211, 105, 65, 221, 121, 34, 242, 242, 104, 210, 172, 44, 93, 83, 166, 248,
           23, 1, 125, 72, 14, 179, 41, 135, 224, 17, 250, 128, 146, 221, 162>>>>,
       [R |-> <<145, 30, 79, 11, 243, 101, 75, 65, 133, 165, 7, 158, 219, 189, 53, 27,
                66, 114, 180, 11, 45, 24, 247, 159, 155, 107, 175, 139, 32, 145, 14, 208>>,
        S |-> <<68, 72, 251, 147, 205, 59, 48, 239, 148, 121, 198, 234, 91, 142, 200, 16,
                11, 68, 163, 208, 10, 165, 60, 2, 53, 175, 171, 0, 200, 216, 159, 7>>]>>,
     <<<<<<0, 0, 0, 0, 0, 0, 0, 0, 0, 0, 0, 0, 0, 0, 0, 0, 0, 0, 0, 0, 0, 0, 0, 0, 0, 0,
           0, 0, 0, 0, 0, 5>>,
         <<49, 3, 216, 83, 110, 202, 109, 97, 89, 82, 110, 168, 146, 115, 57, 203, 179,
           207, 175, 193, 14, 107, 188, 15, 238, 225, 58, 88, 18, 78, 105, 194>>>>,
       [R |-> <<46, 106, 203, 61, 114, 115, 248, 59, 156, 215, 65, 183, 220, 105, 185,
                185, 142, 180, 143, 57, 178, 169, 202, 118, 202, 130, 55, 159, 50, 54,
                186, 235>>,
        S |-> <<22, 59, 178, 249, 108, 221, 138, 133, 39, 206, 50, 37, 172, 19, 38, 9,
                131, 222, 200, 54, 160, 199, 4, 97, 186, 108, 48, 64, 30, 216, 214, 32>>]>>,
     <<<<<<0, 0, 0, 0, 0, 0, 0, 0, 0, 0, 0, 0, 0, 0, 0, 0, 0, 0, 0, 0, 0, 0, 0, 0, 0, 0,
           0, 0, 0, 0, 0, 5>>,
         <<49, 60, 175, 192, 1, 200, 248, 240, 6, 198, 202, 88, 98, 36, 72, 212, 130, 84,
           62, 144, 178, 228, 8, 83, 95, 227, 53, 47, 115, 207, 4, 248>>>>,
       [R |-> <<251, 203, 155, 146, 241, 255, 239, 107, 81, 28, 208, 36, 207, 36, 101,
                61, 138, 83, 17, 172, 228, 112, 117, 168, 27, 250, 16, 201, 174, 10, 28,
                86>>,
        S |-> <<39, 211, 146, 1, 21, 145, 100, 177, 240, 58, 147, 138, 170, 106, 8, 145,
                151, 98, 100, 123, 39, 139, 120, 138, 23, 93, 25, 99, 201, 224, 220, 217>>]>>,
     <<<<<<0, 0, 0, 0, 0, 0, 0, 0, 0, 0, 0, 0, 0, 0, 0, 0, 0, 0, 0, 0, 0, 0, 0, 0, 0, 0,
           0, 0, 0, 0, 0, 5>>,
         <<5, 69, 149, 12, 79, 253, 1, 154, 75, 209, 199, 195, 225, 29, 244, 39, 17, 112,
           222, 251, 176, 247, 16, 223, 160, 209, 61, 222, 86, 105, 41, 192>>>>,
       [R |-> <<15, 161, 80, 143, 85, 150, 105, 19, 132, 212, 31, 127, 116, 164, 195,
                179, 181, 43, 248, 37, 28, 219, 137, 20, 64, 80, 112, 230, 112, 49, 26,
                146>>,
        S |-> <<65, 229, 185, 138, 195, 239, 236, 207, 148, 5, 198, 159, 202, 210, 41,
                131, 229, 206, 65, 207, 134, 66, 220, 209, 77, 120, 40, 9, 1, 100, 39,
                238>>]>>,
     <<<<<<0, 0, 0, 0, 0, 0, 0, 0, 0, 0, 0, 0, 0, 0, 0, 0, 0, 0, 0, 0, 0, 0, 0, 0, 0, 0,
           0, 0, 0, 0, 0, 5>>,
         <<50, 227, 205, 241, 33, 25, 205, 150, 219, 187, 132, 202, 202, 59, 78, 233,
           145, 104, 68, 110, 172, 71, 4, 175, 161, 11, 131, 65, 63, 55, 188, 200>>>>,
       [R |-> <<24, 229, 91, 187, 223, 43, 132, 23, 121, 143, 236, 153, 195, 5, 36, 207,
                93, 111, 247, 195, 58, 68, 110, 57, 74, 51, 205, 46, 121, 124, 212, 205>>,
        S |-> <<42, 50, 219, 116, 113, 101, 183, 73, 158, 99, 178, 197, 228, 163, 88, 6,
                117, 212, 11, 32, 235, 117, 187, 112, 120, 197, 41, 172, 79, 45, 157,
                230>>]>>,
     <<<<<<0, 0, 0, 0, 0, 0, 0, 0, 0, 0, 0, 0, 0, 0, 0, 0, 0, 0, 0, 0, 0, 0, 0, 0, 0, 0,
           0, 0, 0, 0, 0, 5>>,
         <<51, 220, 161, 200, 86, 27, 186, 182, 182, 183, 170, 230, 231, 60, 45, 96, 74,
           46, 43, 94, 89, 160, 187, 87, 184, 190, 166, 176, 93, 86, 221, 82>>>>,
       [R |-> <<140, 226, 54, 230, 31, 63, 105, 141, 251, 184, 141, 67, 198, 65, 96, 124,
                85, 217, 215, 152, 75, 72, 3, 15, 239, 96, 102, 48, 88, 119, 216, 6>>,
        S |-> <<10, 192, 135, 228, 158, 122, 126, 31, 25, 23, 155, 8, 38, 163, 65, 246,
                141, 44, 222, 153, 236, 246, 4, 218, 170, 12, 241, 196, 138, 70, 123, 13>>]>>,
     <<<<<<0, 0, 0, 0, 0, 0, 0, 0, 0, 0, 0, 0, 0, 0, 0, 0, 0, 0, 0, 0, 0, 0, 0, 0, 0, 0,
           0, 0, 0, 0, 0, 5>>,
         <<52, 181, 108, 139, 146, 12, 227, 92, 194, 157, 187, 32, 9, 89, 202, 36, 71,
           67, 233, 251, 205, 70, 141, 142, 211, 27, 159, 89, 206, 150, 249, 55>>>>,
       [R |-> <<10, 195, 20, 180, 24, 154, 165, 109, 107, 115, 29, 52, 244, 161, 90, 4,
                219, 179, 254, 180, 23, 36, 106, 168, 106, 181, 173, 87, 217, 206, 109,
                121>>,
        S |-> <<74, 51, 216, 252, 169, 153, 138, 200, 139, 78, 213, 210, 201, 93, 198, 1,
                238, 107, 170, 185, 160, 172, 101, 146, 255, 191, 42, 78, 110, 203, 210,
                2>>]>>,
     <<<<<<0, 0, 0, 0, 0, 0, 0, 0, 0, 0, 0, 0, 0, 0, 0, 0, 0, 0, 0, 0, 0, 0, 0, 0, 0, 0,
           0, 0, 0, 0, 0, 5>>,
         <<60, 143, 67, 55, 236, 180, 237, 35, 109, 12, 91, 170, 230, 212, 232, 16, 25,
           109, 235, 34, 35, 207, 52, 185, 53, 232, 197, 136, 249, 32, 66, 117>>>>,
       [R |-> <<225, 150, 74, 19, 108, 172, 24, 46, 189, 25, 176, 107, 69, 76, 79, 10,
                149, 216, 77, 130, 137, 180, 156, 164, 0, 199, 246, 4, 34, 227, 228, 50>>,
        S |-> <<117, 63, 35, 36, 9, 169, 212, 128, 121, 137, 88, 93, 77, 216, 179, 237,
                188, 129, 59, 50, 192, 24, 55, 60, 229, 253, 74, 71, 163, 191, 235, 214>>]>>,
     <<<<<<0, 0, 0, 0, 0, 0, 0, 0, 0, 0, 0, 0, 0, 0, 0, 0, 0, 0, 0, 0, 0, 0, 0, 0, 0, 0,
           0, 0, 0, 0, 0, 5>>,
         <<60, 252, 92, 225, 16, 60, 76, 22, 61, 59, 171, 180, 38, 98, 10, 98, 222, 203,
           161, 167, 99, 175, 169, 125, 26, 194, 51, 235, 44, 216, 164, 239>>>>,
       [R |-> <<56, 114, 124, 158, 173, 23, 69, 163, 212, 2, 220, 230, 82, 51, 19, 82,
                115, 225, 146, 18, 159, 229, 244, 3, 55, 181, 208, 2, 230, 238, 131, 200>>,
        S |-> <<86, 110, 165, 141, 43, 81, 203, 96, 115, 42, 63, 178, 14, 255, 239, 250,
                183, 183, 242, 170, 157, 212, 135, 85, 42, 121, 21, 222, 91, 254, 214,
                136>>]>>,
     <<<<<<0, 0, 0, 0, 0, 0, 0, 0, 0, 0, 0, 0, 0, 0, 0, 0, 0, 0, 0, 0, 0, 0, 0, 0, 0, 0,
           0, 0, 0, 0, 0, 5>>,
         <<61, 116, 46, 143, 122, 26, 26, 19, 207, 66, 244, 116, 115, 162, 225, 218, 13,
           12, 189, 44, 230, 255, 135, 145, 101, 217, 116, 187, 231, 138, 4, 12>>>>,
       [R |-> <<194, 232, 206, 99, 10, 31, 210, 45, 53, 199, 248, 9, 77, 177, 80, 213,
                214, 226, 7, 203, 233, 115, 53, 9, 42, 154, 69, 205, 0, 126, 39, 216>>,
        S |-> <<49, 240, 56, 247, 244, 200, 235, 135, 35, 242, 181, 75, 238, 137, 115,
                102, 62, 185, 29, 229, 204, 79, 41, 235, 15, 213, 145, 185, 184, 236,
                117, 69>>]>>,
     <<<<<<0, 0, 0, 0, 0, 0, 0, 0, 0, 0, 0, 0, 0, 0, 0, 0, 0, 0, 0, 0, 0, 0, 0, 0, 0, 0,
           0, 0, 0, 0, 0, 5>>,
         <<64, 234, 216, 39, 167, 133, 231, 2, 33, 184, 161, 119, 238, 99, 215, 14, 51,
           197, 148, 14, 79, 249, 95, 246, 195, 30, 202, 35, 19, 203, 149, 64>>>>,
       [R |-> <<247, 102, 34, 227, 138, 37, 212, 239, 72, 74, 185, 130, 1, 138, 255, 7,
                63, 71, 53, 59, 194, 80, 2, 88, 10, 242, 55, 214, 35, 139, 156, 87>>,
        S |-> <<116, 24, 86, 209, 84, 89, 176, 206, 100, 19, 114, 203, 162, 42, 130, 154,
                131, 86, 117, 109, 245, 200, 14, 251, 28, 103, 181, 154, 226, 59, 116,
                16>>]>>,
     <<<<<<0, 0, 0, 0, 0, 0, 0, 0, 0, 0, 0, 0, 0, 0, 0, 0, 0, 0, 0, 0, 0, 0, 0, 0, 0, 0,
           0, 0, 0, 0, 0, 5>>,
         <<70, 22, 152, 138, 238, 175, 201, 214, 161, 170, 160, 255, 164, 146, 163, 4,
           36, 77, 173, 13, 34, 214, 62, 243, 47, 195, 53, 144, 141, 20, 121, 62>>>>,
       [R |-> <<204, 97, 117, 59, 212, 211, 55, 97, 33, 110, 124, 205, 211, 99, 227, 183,
                21, 14, 159, 5, 226, 150, 181, 77, 60, 49, 194, 247, 111, 246, 76, 227>>,
        S |-> <<17, 68, 82, 102, 81, 223, 126, 102, 149, 193, 55, 167, 116, 179, 247, 58,
                147, 67, 47, 220, 2, 20, 52, 17, 81, 205, 169, 85, 76, 146, 140, 23>>]>>,
     <<<<<<0, 0, 0, 0, 0, 0, 0, 0, 0, 0, 0, 0, 0, 0, 0, 0, 0, 0, 0, 0, 0, 0, 0, 0, 0, 0,
           0, 0, 0, 0, 0, 5>>,
         <<79, 162, 181, 111, 103, 173, 167, 13, 176, 100, 191, 166, 44, 54, 150, 230,
           203, 152, 118, 8, 43, 188, 107, 153, 66, 59, 46, 232, 50, 224, 48, 62>>>>,
       [R |-> <<223, 204, 191, 205, 154, 109, 216, 249, 236, 236, 77, 130, 42, 148, 159,
                175, 20, 162, 63, 44, 10, 60, 41, 114, 158, 130, 189, 2, 120, 254, 164,
                222>>,
        S |-> <<24, 87, 146, 248, 198, 140, 248, 57, 185, 176, 64, 87, 84, 133, 118, 188,
                135, 27, 159, 44, 139, 187, 68, 27, 135, 238, 235, 243, 9, 24, 74, 171>>]>>,
     <<<<<<0, 0, 0, 0, 0, 0, 0, 0, 0, 0, 0, 0, 0, 0, 0, 0, 0, 0, 0, 0, 0, 0, 0, 0, 0, 0,
           0, 0, 0, 0, 0, 5>>,
         <<83, 234, 175, 171, 252, 220, 131, 179, 132, 134, 46, 154, 255, 169, 129, 137,
           38, 7, 225, 179, 51, 23, 152, 217, 174, 251, 101, 255, 92, 15, 205, 166>>>>,
       [R |-> <<224, 5, 40, 177, 126, 132, 85, 144, 146, 69, 242, 129, 165, 39, 209, 176,
                14, 137, 53, 41, 60, 40, 124, 175, 204, 12, 158, 134, 121, 4, 47, 62>>,
        S |-> <<72, 64, 92, 207, 73, 33, 176, 185, 182, 47, 205, 6, 5, 42, 246, 32, 48,
                35, 17, 16, 203, 20, 140, 202, 155, 22, 13, 200, 23, 92, 154, 153>>]>>,
     <<<<<<0, 0, 0, 0, 0, 0, 0, 0, 0, 0, 0, 0, 0, 0, 0, 0, 0, 0, 0, 0, 0, 0, 0, 0, 0, 0,
           0, 0, 0, 0, 0, 5>>,
         <<88, 77, 150, 166, 181, 180, 121, 210, 191, 229, 146, 95, 127, 237, 207, 143,
           87, 90, 74, 184, 183, 190, 57, 187, 78, 123, 50, 130, 125, 222, 45, 1>>>>,
       [R |-> <<251, 198, 125, 173, 145, 204, 158, 222, 207, 122, 222, 186, 106, 197, 57,
                228, 95, 241, 249, 209, 3, 60, 15, 131, 169, 26, 34, 161, 197, 188, 116,
                115>>,
        S |-> <<111, 124, 94, 250, 11, 154, 232, 223, 224, 179, 122, 44, 169, 2, 4, 245,
                115, 165, 191, 178, 227, 93, 79, 45, 132, 231, 197, 179, 51, 5, 35, 86>>]>>,
     <<<<<<0, 0, 0, 0, 0, 0, 0, 0, 0, 0, 0, 0, 0, 0, 0, 0, 0, 0, 0, 0, 0, 0, 0, 0, 0, 0,
           0, 0, 0, 0, 0, 5>>,
         <<95, 234, 235, 24, 191, 41, 65, 54, 248, 56, 64, 112, 193, 232, 31, 213, 8,
           143, 136, 124, 166, 43, 240, 225, 85, 21, 150, 250, 222, 62, 199, 72>>>>,
       [R |-> <<44, 197, 51, 46, 141, 193, 29, 62, 240, 119, 147, 221, 117, 171, 202, 72,
                78, 119, 30, 64, 127, 59, 243, 172, 191, 127, 244, 251, 45, 254, 253,
                204>>,
        S |-> <<110, 187, 235, 17, 180, 154, 61, 213, 57, 115, 188, 173, 28, 147, 221,
                97, 26, 167, 51, 226, 187, 10, 93, 64, 120, 182, 76, 80, 101, 165, 252,
                242>>]>>>>
    \o <<<<<<<<0, 0, 0, 0, 0, 0, 0, 0, 0, 0, 0, 0, 0, 0, 0, 0, 0, 0, 0, 0, 0, 0, 0, 0, 0, 0,
           0, 0, 0, 0, 0, 5>>,
         <<97, 110, 37, 122, 186, 19, 155, 251, 152, 192, 228, 104, 253, 19, 176, 235,
           121, 89, 180, 87, 26, 88, 165, 19, 169, 199, 54, 164, 37, 154, 85, 215>>>>,
       [R |-> <<226, 58, 76, 80, 57, 163, 118, 42, 55, 99, 57, 159, 102, 99, 255, 142,
                90, 68, 14, 146, 135, 76, 109, 240, 218, 194, 188, 205, 116, 186, 47,
                203>>,
        S |-> <<76, 123, 229, 59, 3, 95, 152, 23, 43, 147, 147, 195, 208, 247, 147, 225,
                158, 89, 97, 168, 199, 50, 101, 86, 85, 5, 206, 46, 86, 127, 163, 74>>]>>,
     <<<<<<0, 0, 0, 0, 0, 0, 0, 0, 0, 0, 0, 0, 0, 0, 0, 0, 0, 0, 0, 0, 0, 0, 0, 0, 0, 0,
           0, 0, 0, 0, 0, 5>>,
         <<99, 79, 191, 212, 216, 187, 115, 233, 186, 92, 148, 103, 44, 1, 0, 155, 122,
           199, 45, 174, 163, 104, 70, 247, 6, 124, 190, 177, 249, 113, 216, 168>>>>,
       [R |-> <<100, 198, 199, 77, 201, 82, 68, 206, 114, 67, 108, 117, 246, 151, 88,
                238, 214, 96, 41, 229, 76, 98, 4, 229, 59, 24, 229, 95, 184, 97, 180,
                241>>,
        S |-> <<55, 100, 227, 164, 155, 223, 32, 85, 45, 28, 253, 130, 246, 20, 217, 130,
                173, 164, 113, 134, 29, 71, 140, 44, 16, 102, 134, 240, 95, 236, 102,
                150>>]>>>>


\* a table as the function from its arguments to their values
AsFunction(table) ==
    [x \in {table[i][1] : i \in 1..Len(table)} |->
        table[CHOOSE i \in 1..Len(table) : table[i][1] = x][2]] @@ <<>>

SeedsKnown == AsFunction(KnownSeeds)
Hmac512Known == AsFunction(KnownHmac512)
PublicKeysKnown == AsFunction(KnownPublicKeys)
SignaturesKnown == AsFunction(KnownSignatures)

Known(known, x, Compute(_)) ==
    Eager(x, LAMBDA arg : IF arg \in DOMAIN known THEN known[arg] ELSE Compute(arg))

\* pbkdf2.Key(password, salt, 2048, 64, sha512.New)
SeedKey(password, salt) ==
    Known(SeedsKnown, <<password, salt>>, LAMBDA in : Pbkdf2Key(in[1], in[2], 2048))

\* hmac.New(sha512.New, key), Write(data), Sum(nil)
HmacSha512(key, data) ==
    Known(Hmac512Known, <<key, data>>, LAMBDA in : Hmac512(in[1], in[2]))

\* the 33 bytes of the public key of the private key of 32 bytes
PublicKeyBytes(key) ==
    Known(PublicKeysKnown, key,
          LAMBDA k : CompressPoint(ScalarBaseMult(Canon(GroupOrder, BytesToNum(k)))))

\* ecdsa.Sign(priv, hash): <<R, S>>, 32 bytes each
Sign(priv, hash) ==
    Known(SignaturesKnown, <<priv, hash>>, LAMBDA in : signRFC6979(in[1], in[2], 0))

\* the English word list of bip39 (wordlists.English): 2048 words, a word's
\* index is its place counted from 0
Wordlist ==
    <<"abandon", "ability", "able", "about", "above", "absent", "absorb", "abstract",
      "absurd", "abuse", "access", "accident", "account", "accuse", "achieve", "acid",
      "acoustic", "acquire", "across", "act", "action", "actor", "actress", "actual",
      "adapt", "add", "addict", "address", "adjust", "admit", "adult", "advance", "advice",
      "aerobic", "affair", "afford", "afraid", "again", "age", "agent", "agree", "ahead",
      "aim", "air", "airport", "aisle", "alarm", "album", "alcohol", "alert", "alien",
      "all", "alley", "allow", "almost", "alone", "alpha", "already", "also", "alter",
      "always", "amateur", "amazing", "among">>
    \o
    <<"amount", "amused", "analyst", "anchor", "ancient", "anger", "angle", "angry",
      "animal", "ankle", "announce", "annual", "another", "answer", "antenna", "antique",
      "anxiety", "any", "apart", "apology", "appear", "apple", "approve", "april", "arch",
      "arctic", "area", "arena", "argue", "arm", "armed", "armor", "army", "around",
      "arrange", "arrest", "arrive", "arrow", "art", "artefact", "artist", "artwork",
      "ask", "aspect", "assault", "asset", "assist", "assume", "asthma", "athlete", "atom",
      "attack", "attend", "attitude", "attract", "auction", "audit", "august", "aunt",
      "author", "auto", "autumn", "average", "avocado">>
    \o
    <<"avoid", "awake", "aware", "away", "awesome", "awful", "awkward", "axis", "baby",
      "bachelor", "bacon", "badge", "bag", "balance", "balcony", "ball", "bamboo",
      "banana", "banner", "bar", "barely", "bargain", "barrel", "base", "basic", "basket",
      "battle", "beach", "bean", "beauty", "because", "become", "beef", "before", "begin",
      "behave", "behind", "believe", "below", "belt", "bench", "benefit", "best", "betray",
      "better", "between", "beyond", "bicycle", "bid", "bike", "bind", "biology", "bird",
      "birth", "bitter", "black", "blade", "blame", "blanket", "blast", "bleak", "bless",
      "blind", "blood">>
    \o
    <<"blossom", "blouse", "blue", "blur", "blush", "board", "boat", "body", "boil",
      "bomb", "bone", "bonus", "book", "boost", "border", "boring", "borrow", "boss",
      "bottom", "bounce", "box", "boy", "bracket", "brain", "brand", "brass", "brave",
      "bread", "breeze", "brick", "bridge", "brief", "bright", "bring", "brisk",
      "broccoli", "broken", "bronze", "broom", "brother", "brown", "brush", "bubble",
      "buddy", "budget", "buffalo", "build", "bulb", "bulk", "bullet", "bundle", "bunker",
      "burden", "burger", "burst", "bus", "business", "busy", "butter", "buyer", "buzz",
      "cabbage", "cabin", "cable">>
    \o
    <<"cactus", "cage", "cake", "call", "calm", "camera", "camp", "can", "canal", "cancel",
      "candy", "cannon", "canoe", "canvas", "canyon", "capable", "capital", "captain",
      "car", "carbon", "card", "cargo", "carpet", "carry", "cart", "case", "cash",
      "casino", "castle", "casual", "cat", "catalog", "catch", "category", "cattle",
      "caught", "cause", "caution", "cave", "ceiling", "celery", "cement", "census",
      "century", "cereal", "certain", "chair", "chalk", "champion", "change", "chaos",
      "chapter", "charge", "chase", "chat", "cheap", "check", "cheese", "chef", "cherry",
      "chest", "chicken", "chief", "child">>
    \o
    <<"chimney", "choice", "choose", "chronic", "chuckle", "chunk", "churn", "cigar",
      "cinnamon", "circle", "citizen", "city", "civil", "claim", "clap", "clarify", "claw",
      "clay", "clean", "clerk", "clever", "click", "client", "cliff", "climb", "clinic",
      "clip", "clock", "clog", "close", "cloth", "cloud", "clown", "club", "clump",
      "cluster", "clutch", "coach", "coast", "coconut", "code", "coffee", "coil", "coin",
      "collect", "color", "column", "combine", "come", "comfort", "comic", "common",
      "company", "concert", "conduct", "confirm", "congress", "connect", "consider",
      "control", "convince", "cook", "cool", "copper">>
    \o
    <<"copy", "coral", "core", "corn", "correct", "cost", "cotton", "couch", "country",
      "couple", "course", "cousin", "cover", "coyote", "crack", "cradle", "craft", "cram",
      "crane", "crash", "crater", "crawl", "crazy", "cream", "credit", "creek", "crew",
      "cricket", "crime", "crisp", "critic", "crop", "cross", "crouch", "crowd", "crucial",
      "cruel", "cruise", "crumble", "crunch", "crush", "cry", "crystal", "cube", "culture",
      "cup", "cupboard", "curious", "current", "curtain", "curve", "cushion", "custom",
      "cute", "cycle", "dad", "damage", "damp", "dance", "danger", "daring", "dash",
      "daughter", "dawn">>
    \o
    <<"day", "deal", "debate", "debris", "decade", "december", "decide", "decline",
      "decorate", "decrease", "deer", "defense", "define", "defy", "degree", "delay",
      "deliver", "demand", "demise", "denial", "dentist", "deny", "depart", "depend",
      "deposit", "depth", "deputy", "derive", "describe", "desert", "design", "desk",
      "despair", "destroy", "detail", "detect", "develop", "device", "devote", "diagram",
      "dial", "diamond", "diary", "dice", "diesel", "diet", "differ", "digital", "dignity",
      "dilemma", "dinner", "dinosaur", "direct", "dirt", "disagree", "discover", "disease",
      "dish", "dismiss", "disorder", "display", "distance", "divert", "divide">>
    \o
    <<"divorce", "dizzy", "doctor", "document", "dog", "doll", "dolphin", "domain",
      "donate", "donkey", "donor", "door", "dose", "double", "dove", "draft", "dragon",
      "drama", "drastic", "draw", "dream", "dress", "drift", "drill", "drink", "drip",
      "drive", "drop", "drum", "dry", "duck", "dumb", "dune", "during", "dust", "dutch",
      "duty", "dwarf", "dynamic", "eager", "eagle", "early", "earn", "earth", "easily",
      "east", "easy", "echo", "ecology", "economy", "edge", "edit", "educate", "effort",
      "egg", "eight", "either", "elbow", "elder", "electric", "elegant", "element",
      "elephant", "elevator">>
    \o
    <<"elite", "else", "embark", "embody", "embrace", "emerge", "emotion", "employ",
      "empower", "empty", "enable", "enact", "end", "endless", "endorse", "enemy",
      "energy", "enforce", "engage", "engine", "enhance", "enjoy", "enlist", "enough",
      "enrich", "enroll", "ensure", "enter", "entire", "entry", "envelope", "episode",
      "equal", "equip", "era", "erase", "erode", "erosion", "error", "erupt", "escape",
      "essay", "essence", "estate", "eternal", "ethics", "evidence", "evil", "evoke",
      "evolve", "exact", "example", "excess", "exchange", "excite", "exclude", "excuse",
      "execute", "exercise", "exhaust", "exhibit", "exile", "exist", "exit">>
    \o
    <<"exotic", "expand", "expect", "expire", "explain", "expose", "express", "extend",
      "extra", "eye", "eyebrow", "fabric", "face", "faculty", "fade", "faint", "faith",
      "fall", "false", "fame", "family", "famous", "fan", "fancy", "fantasy", "farm",
      "fashion", "fat", "fatal", "father", "fatigue", "fault", "favorite", "feature",
      "february", "federal", "fee", "feed", "feel", "female", "fence", "festival", "fetch",
      "fever", "few", "fiber", "fiction", "field", "figure", "file", "film", "filter",
      "final", "find", "fine", "finger", "finish", "fire", "firm", "first", "fiscal",
      "fish", "fit", "fitness">>
    \o
    <<"fix", "flag", "flame", "flash", "flat", "flavor", "flee", "flight", "flip", "float",
      "flock", "floor", "flower", "fluid", "flush", "fly", "foam", "focus", "fog", "foil",
      "fold", "follow", "food", "foot", "force", "forest", "forget", "fork", "fortune",
      "forum", "forward", "fossil", "foster", "found", "fox", "fragile", "frame",
      "frequent", "fresh", "friend", "fringe", "frog", "front", "frost", "frown", "frozen",
      "fruit", "fuel", "fun", "funny", "furnace", "fury", "future", "gadget", "gain",
      "galaxy", "gallery", "game", "gap", "garage", "garbage", "garden", "garlic",
      "garment">>
    \o
    <<"gas", "gasp", "gate", "gather", "gauge", "gaze", "general", "genius", "genre",
      "gentle", "genuine", "gesture", "ghost", "giant", "gift", "giggle", "ginger",
      "giraffe", "girl", "give", "glad", "glance", "glare", "glass", "glide", "glimpse",
      "globe", "gloom", "glory", "glove", "glow", "glue", "goat", "goddess", "gold",
      "good", "goose", "gorilla", "gospel", "gossip", "govern", "gown", "grab", "grace",
      "grain", "grant", "grape", "grass", "gravity", "great", "green", "grid", "grief",
      "grit", "grocery", "group", "grow", "grunt", "guard", "guess", "guide", "guilt",
      "guitar", "gun">>
    \o
    <<"gym", "habit", "hair", "half", "hammer", "hamster", "hand", "happy", "harbor",
      "hard", "harsh", "harvest", "hat", "have", "hawk", "hazard", "head", "health",
      "heart", "heavy", "hedgehog", "height", "hello", "helmet", "help", "hen", "hero",
      "hidden", "high", "hill", "hint", "hip", "hire", "history", "hobby", "hockey",
      "hold", "hole", "holiday", "hollow", "home", "honey", "hood", "hope", "horn",
      "horror", "horse", "hospital", "host", "hotel", "hour", "hover", "hub", "huge",
      "human", "humble", "humor", "hundred", "hungry", "hunt", "hurdle", "hurry", "hurt",
      "husband">>
    \o
    <<"hybrid", "ice", "icon", "idea", "identify", "idle", "ignore", "ill", "illegal",
      "illness", "image", "imitate", "immense", "immune", "impact", "impose", "improve",
      "impulse", "inch", "include", "income", "increase", "index", "indicate", "indoor",
      "industry", "infant", "inflict", "inform", "inhale", "inherit", "initial", "inject",
      "injury", "inmate", "inner", "innocent", "input", "inquiry", "insane", "insect",
      "inside", "inspire", "install", "intact", "interest", "into", "invest", "invite",
      "involve", "iron", "island", "isolate", "issue", "item", "ivory", "jacket", "jaguar",
      "jar", "jazz", "jealous", "jeans", "jelly", "jewel">>
    \o
    <<"job", "join", "joke", "journey", "joy", "judge", "juice", "jump", "jungle",
      "junior", "junk", "just", "kangaroo", "keen", "keep", "ketchup", "key", "kick",
      "kid", "kidney", "kind", "kingdom", "kiss", "kit", "kitchen", "kite", "kitten",
      "kiwi", "knee", "knife", "knock", "know", "lab", "label", "labor", "ladder", "lady",
      "lake", "lamp", "language", "laptop", "large", "later", "latin", "laugh", "laundry",
      "lava", "law", "lawn", "lawsuit", "layer", "lazy", "leader", "leaf", "learn",
      "leave", "lecture", "left", "leg", "legal", "legend", "leisure", "lemon", "lend">>
    \o
    <<"length", "lens", "leopard", "lesson", "letter", "level", "liar", "liberty",
      "library", "license", "life", "lift", "light", "like", "limb", "limit", "link",
      "lion", "liquid", "list", "little", "live", "lizard", "load", "loan", "lobster",
      "local", "lock", "logic", "lonely", "long", "loop", "lottery", "loud", "lounge",
      "love", "loyal", "lucky", "luggage", "lumber", "lunar", "lunch", "luxury", "lyrics",
      "machine", "mad", "magic", "magnet", "maid", "mail", "main", "major", "make",
      "mammal", "man", "manage", "mandate", "mango", "mansion", "manual", "maple",
      "marble", "march", "margin">>
    \o
    <<"marine", "market", "marriage", "mask", "mass", "master", "match", "material",
      "math", "matrix", "matter", "maximum", "maze", "meadow", "mean", "measure", "meat",
      "mechanic", "medal", "media", "melody", "melt", "member", "memory", "mention",
      "menu", "mercy", "merge", "merit", "merry", "mesh", "message", "metal", "method",
      "middle", "midnight", "milk", "million", "mimic", "mind", "minimum", "minor",
      "minute", "miracle", "mirror", "misery", "miss", "mistake", "mix", "mixed",
      "mixture", "mobile", "model", "modify", "mom", "moment", "monitor", "monkey",
      "monster", "month", "moon", "moral", "more", "morning">>
    \o
    <<"mosquito", "mother", "motion", "motor", "mountain", "mouse", "move", "movie",
      "much", "muffin", "mule", "multiply", "muscle", "museum", "mushroom", "music",
      "must", "mutual", "myself", "mystery", "myth", "naive", "name", "napkin", "narrow",
      "nasty", "nation", "nature", "near", "neck", "need", "negative", "neglect",
      "neither", "nephew", "nerve", "nest", "net", "network", "neutral", "never", "news",
      "next", "nice", "night", "noble", "noise", "nominee", "noodle", "normal", "north",
      "nose", "notable", "note", "nothing", "notice", "novel", "now", "nuclear", "number",
      "nurse", "nut", "oak", "obey">>
    \o
    <<"object", "oblige", "obscure", "observe", "obtain", "obvious", "occur", "ocean",
      "october", "odor", "off", "offer", "office", "often", "oil", "okay", "old", "olive",
      "olympic", "omit", "once", "one", "onion", "online", "only", "open", "opera",
      "opinion", "oppose", "option", "orange", "orbit", "orchard", "order", "ordinary",
      "organ", "orient", "original", "orphan", "ostrich", "other", "outdoor", "outer",
      "output", "outside", "oval", "oven", "over", "own", "owner", "oxygen", "oyster",
      "ozone", "pact", "paddle", "page", "pair", "palace", "palm", "panda", "panel",
      "panic", "panther", "paper">>
    \o
    <<"parade", "parent", "park", "parrot", "party", "pass", "patch", "path", "patient",
      "patrol", "pattern", "pause", "pave", "payment", "peace", "peanut", "pear",
      "peasant", "pelican", "pen", "penalty", "pencil", "people", "pepper", "perfect",
      "permit", "person", "pet", "phone", "photo", "phrase", "physical", "piano", "picnic",
      "picture", "piece", "pig", "pigeon", "pill", "pilot", "pink", "pioneer", "pipe",
      "pistol", "pitch", "pizza", "place", "planet", "plastic", "plate", "play", "please",
      "pledge", "pluck", "plug", "plunge", "poem", "poet", "point", "polar", "pole",
      "police", "pond", "pony">>
    \o
    <<"pool", "popular", "portion", "position", "possible", "post", "potato", "pottery",
      "poverty", "powder", "power", "practice", "praise", "predict", "prefer", "prepare",
      "present", "pretty", "prevent", "price", "pride", "primary", "print", "priority",
      "prison", "private", "prize", "problem", "process", "produce", "profit", "program",
      "project", "promote", "proof", "property", "prosper", "protect", "proud", "provide",
      "public", "pudding", "pull", "pulp", "pulse", "pumpkin", "punch", "pupil", "puppy",
      "purchase", "purity", "purpose", "purse", "push", "put", "puzzle", "pyramid",
      "quality", "quantum", "quarter", "question", "quick", "quit", "quiz">>
    \o
    <<"quote", "rabbit", "raccoon", "race", "rack", "radar", "radio", "rail", "rain",
      "raise", "rally", "ramp", "ranch", "random", "range", "rapid", "rare", "rate",
      "rather", "raven", "raw", "razor", "ready", "real", "reason", "rebel", "rebuild",
      "recall", "receive", "recipe", "record", "recycle", "reduce", "reflect", "reform",
      "refuse", "region", "regret", "regular", "reject", "relax", "release", "relief",
      "rely", "remain", "remember", "remind", "remove", "render", "renew", "rent",
      "reopen", "repair", "repeat", "replace", "report", "require", "rescue", "resemble",
      "resist", "resource", "response", "result", "retire">>
    \o
    <<"retreat", "return", "reunion", "reveal", "review", "reward", "rhythm", "rib",
      "ribbon", "rice", "rich", "ride", "ridge", "rifle", "right", "rigid", "ring", "riot",
      "ripple", "risk", "ritual", "rival", "river", "road", "roast", "robot", "robust",
      "rocket", "romance", "roof", "rookie", "room", "rose", "rotate", "rough", "round",
      "route", "royal", "rubber", "rude", "rug", "rule", "run", "runway", "rural", "sad",
      "saddle", "sadness", "safe", "sail", "salad", "salmon", "salon", "salt", "salute",
      "same", "sample", "sand", "satisfy", "satoshi", "sauce", "sausage", "save", "say">>
    \o
    <<"scale", "scan", "scare", "scatter", "scene", "scheme", "school", "science",
      "scissors", "scorpion", "scout", "scrap", "screen", "script", "scrub", "sea",
      "search", "season", "seat", "second", "secret", "section", "security", "seed",
      "seek", "segment", "select", "sell", "seminar", "senior", "sense", "sentence",
      "series", "service", "session", "settle", "setup", "seven", "shadow", "shaft",
      "shallow", "share", "shed", "shell", "sheriff", "shield", "shift", "shine", "ship",
      "shiver", "shock", "shoe", "shoot", "shop", "short", "shoulder", "shove", "shrimp",
      "shrug", "shuffle", "shy", "sibling", "sick", "side">>
    \o
    <<"siege", "sight", "sign", "silent", "silk", "silly", "silver", "similar", "simple",
      "since", "sing", "siren", "sister", "situate", "six", "size", "skate", "sketch",
      "ski", "skill", "skin", "skirt", "skull", "slab", "slam", "sleep", "slender",
      "slice", "slide", "slight", "slim", "slogan", "slot", "slow", "slush", "small",
      "smart", "smile", "smoke", "smooth", "snack", "snake", "snap", "sniff", "snow",
      "soap", "soccer", "social", "sock", "soda", "soft", "solar", "soldier", "solid",
      "solution", "solve", "someone", "song", "soon", "sorry", "sort", "soul", "sound",
      "soup">>
    \o
    <<"source", "south", "space", "spare", "spatial", "spawn", "speak", "special", "speed",
      "spell", "spend", "sphere", "spice", "spider", "spike", "spin", "spirit", "split",
      "spoil", "sponsor", "spoon", "sport", "spot", "spray", "spread", "spring", "spy",
      "square", "squeeze", "squirrel", "stable", "stadium", "staff", "stage", "stairs",
      "stamp", "stand", "start", "state", "stay", "steak", "steel", "stem", "step",
      "stereo", "stick", "still", "sting", "stock", "stomach", "stone", "stool", "story",
      "stove", "strategy", "street", "strike", "strong", "struggle", "student", "stuff",
      "stumble", "style", "subject">>
    \o
    <<"submit", "subway", "success", "such", "sudden", "suffer", "sugar", "suggest",
      "suit", "summer", "sun", "sunny", "sunset", "super", "supply", "supreme", "sure",
      "surface", "surge", "surprise", "surround", "survey", "suspect", "sustain",
      "swallow", "swamp", "swap", "swarm", "swear", "sweet", "swift", "swim", "swing",
      "switch", "sword", "symbol", "symptom", "syrup", "system", "table", "tackle", "tag",
      "tail", "talent", "talk", "tank", "tape", "target", "task", "taste", "tattoo",
      "taxi", "teach", "team", "tell", "ten", "tenant", "tennis", "tent", "term", "test",
      "text", "thank", "that">>
    \o
    <<"theme", "then", "theory", "there", "they", "thing", "this", "thought", "three",
      "thrive", "throw", "thumb", "thunder", "ticket", "tide", "tiger", "tilt", "timber",
      "time", "tiny", "tip", "tired", "tissue", "title", "toast", "tobacco", "today",
      "toddler", "toe", "together", "toilet", "token", "tomato", "tomorrow", "tone",
      "tongue", "tonight", "tool", "tooth", "top", "topic", "topple", "torch", "tornado",
      "tortoise", "toss", "total", "tourist", "toward", "tower", "town", "toy", "track",
      "trade", "traffic", "tragic", "train", "transfer", "trap", "trash", "travel", "tray",
      "treat", "tree">>
    \o
    <<"trend", "trial", "tribe", "trick", "trigger", "trim", "trip", "trophy", "trouble",
      "truck", "true", "truly", "trumpet", "trust", "truth", "try", "tube", "tuition",
      "tumble", "tuna", "tunnel", "turkey", "turn", "turtle", "twelve", "twenty", "twice",
      "twin", "twist", "two", "type", "typical", "ugly", "umbrella", "unable", "unaware",
      "uncle", "uncover", "under", "undo", "unfair", "unfold", "unhappy", "uniform",
      "unique", "unit", "universe", "unknown", "unlock", "until", "unusual", "unveil",
      "update", "upgrade", "uphold", "upon", "upper", "upset", "urban", "urge", "usage",
      "use", "used", "useful">>
    \o
    <<"useless", "usual", "utility", "vacant", "vacuum", "vague", "valid", "valley",
      "valve", "van", "vanish", "vapor", "various", "vast", "vault", "vehicle", "velvet",
      "vendor", "venture", "venue", "verb", "verify", "version", "very", "vessel",
      "veteran", "viable", "vibrant", "vicious", "victory", "video", "view", "village",
      "vintage", "violin", "virtual", "virus", "visa", "visit", "visual", "vital", "vivid",
      "vocal", "voice", "void", "volcano", "volume", "vote", "voyage", "wage", "wagon",
      "wait", "walk", "wall", "walnut", "want", "warfare", "warm", "warrior", "wash",
      "wasp", "waste", "water", "wave">>
    \o
    <<"way", "wealth", "weapon", "wear", "weasel", "weather", "web", "wedding", "weekend",
      "weird", "welcome", "west", "wet", "whale", "what", "wheat", "wheel", "when",
      "where", "whip", "whisper", "wide", "width", "wife", "wild", "will", "win", "window",
      "wine", "wing", "wink", "winner", "winter", "wire", "wisdom", "wise", "wish",
      "witness", "wolf", "woman", "wonder", "wood", "wool", "word", "work", "world",
      "worry", "worth", "wrap", "wreck", "wrestle", "wrist", "write", "wrong", "yard",
      "year", "yellow", "you", "young", "youth", "zebra", "zero", "zone", "zoo">>

\* bip39's wordMap: the index of every word of the list
wordMap ==
    LET words == Wordlist
    IN [w \in {words[i] : i \in 1..Len(words)} |->
           (CHOOSE i \in 1..Len(words) : words[i] = w) - 1]

IsWord(w) == w \in DOMAIN wordMap
WordIndex(w) == wordMap[w]

\* splitMnemonicWords: the words of strings.Fields, 12, 15, 18, 21 or 24
ValidWordCount(n) == n % 3 = 0 /\ n >= 12 /\ n <= 24

MnemonicWords(mnemonic) ==
    Bind(Fields(mnemonic), LAMBDA f : [i \in 1..Len(f) |-> JoinChars(f[i])] \o <<>>)

\* the indices of the words i.. of the mnemonic
RECURSIVE WordIndexes(_, _, _)
WordIndexes(words, i, acc) ==
    IF i > Len(words) THEN acc
    ELSE WordIndexes(words, i + 1, Append(acc, WordIndex(words[i])))

\* bit p, counted from 0, of the indices written 11 bits each, high bit first
MnemonicBit(idx, p) == (idx[p \div 11 + 1] \div TwoTo[11 - (p % 11)]) % 2

\* the entropy: all the bits but the last Len / 3, as bytes
EntropyBytes(idx) ==
    [j \in 1..((Len(idx) \div 3) * 4) |->
        128 * MnemonicBit(idx, 8 * j - 8) + 64 * MnemonicBit(idx, 8 * j - 7)
        + 32 * MnemonicBit(idx, 8 * j - 6) + 16 * MnemonicBit(idx, 8 * j - 5)
        + 8 * MnemonicBit(idx, 8 * j - 4) + 4 * MnemonicBit(idx, 8 * j - 3)
        + 2 * MnemonicBit(idx, 8 * j - 2) + MnemonicBit(idx, 8 * j - 1)]

\* the words pass: their count is right, every word is of the list, and the
\* last Len / 3 bits are the first bits of the SHA-256 of the entropy
WordsValid(words) ==
    /\ ValidWordCount(Len(words))
    /\ \A i \in 1..Len(words) : IsWord(words[i])
    /\ Bind(WordIndexes(words, 1, <<>>), LAMBDA idx :
            idx[Len(idx)] % TwoTo[Len(words) \div 3 + 1]
                = Sum256(EntropyBytes(idx))[1] \div TwoTo[9 - Len(words) \div 3])

\* bip39.IsMnemonicValid: EntropyFromMnemonic succeeds
IsMnemonicValid(mnemonic) == Bind(MnemonicWords(mnemonic), LAMBDA words : WordsValid(words))

\* ValidateMnemonic checks if a mnemonic phrase is valid according to BIP39
ValidateMnemonic(mnemonic) ==
    IF mnemonic = <<>> THEN "mnemonic cannot be empty"
    ELSE IF ~IsMnemonicValid(mnemonic) THEN "invalid mnemonic"
    ELSE "nil"

\* bip39.NewSeed(mnemonic, password): the password of PBKDF2 is the mnemonic
\* as it is written, the salt "mnemonic" and the password
NewSeed(mnemonic, passphrase) ==
    SeedKey(Bytes(mnemonic), Bytes(<<"m", "n", "e", "m", "o", "n", "i", "c">> \o passphrase))

\* MnemonicToSeed converts a mnemonic phrase to a seed
MnemonicToSeed(mnemonic, passphrase) ==
    Bind(ValidateMnemonic(mnemonic), LAMBDA valid :
       IF valid # "nil" THEN [seed |-> <<>>, err |-> valid]
       ELSE [seed |-> NewSeed(mnemonic, passphrase), err |-> "nil"])

NoKey == [Key |-> <<>>, ChainCode |-> <<>>, Depth |-> 0, ChildNumber |-> U32(0)]

\* validatePrivateKey: 32 bytes, not zero and below the order of the group
validatePrivateKey(key) ==
    /\ Len(key) = 32
    /\ key # [i \in 1..32 |-> 0]
    /\ ~Geq(BytesToNum(key), GroupOrder.m)

\* addPrivateKeys: the sum modulo the order of the group, on 32 bytes
addPrivateKeys(key1, key2) ==
    NumToBytes(Canon(GroupOrder, AddMod(GroupOrder, BytesToNum(key1), BytesToNum(key2))))

\* publicKeyForPrivateKey: the compressed point of curve.ScalarBaseMult(key)
publicKeyForPrivateKey(key) == PublicKeyBytes(key)

\* uint32Bytes: big-endian
uint32Bytes(i) == <<i[1] \div Byte, i[1] % Byte, i[2] \div Byte, i[2] % Byte>>

\* "Bitcoin seed"
BitcoinSeed == <<66, 105, 116, 99, 111, 105, 110, 32, 115, 101, 101, 100>>

\* bip32.NewMasterKey(seed): HMAC keyed "Bitcoin seed"; the left half is the
\* key, the right half the chain code; the key is validated
NewMasterKey(seed) ==
    Bind(HmacSha512(BitcoinSeed, seed), LAMBDA intermediary :
       IF ~validatePrivateKey(SubSeq(intermediary, 1, 32))
       THEN [key |-> NoKey, err |-> "invalid private key"]
       ELSE [key |-> [Key |-> SubSeq(intermediary, 1, 32),
                      ChainCode |-> SubSeq(intermediary, 33, 64),
                      Depth |-> 0, ChildNumber |-> U32(0)],
             err |-> "nil"])

IsHardened(childIdx) == childIdx[1] >= HalfLimb

\* getIntermediary: a hardened index hashes 0x00 and the private key, a
\* normal one the public key, then the index, keyed by the chain code
getIntermediary(key, childIdx) ==
    HmacSha512(key.ChainCode,
               (IF IsHardened(childIdx) THEN <<0>> \o key.Key
                ELSE publicKeyForPrivateKey(key.Key)) \o uint32Bytes(childIdx))

\* bip32 Key.NewChildKey(childIdx) of a private key: the child key is the
\* left half of the intermediary plus the key; Depth is one byte; no retry
\* on an invalid child key
NewChildKey(key, childIdx) ==
    Bind(getIntermediary(key, childIdx), LAMBDA intermediary :
    Bind(addPrivateKeys(SubSeq(intermediary, 1, 32), key.Key), LAMBDA child :
       IF ~validatePrivateKey(child) THEN [key |-> NoKey, err |-> "invalid private key"]
       ELSE [key |-> [Key |-> child, ChainCode |-> SubSeq(intermediary, 33, 64),
                      Depth |-> (key.Depth + 1) % Byte, ChildNumber |-> childIdx],
             err |-> "nil"]))

----------------------------------------------------------------------------
\* strings and strconv

HasPrefix(s, prefix) ==
    Len(s) >= Len(prefix) /\ SubSeq(s, 1, Len(prefix)) = prefix

HasSuffix(s, suffix) ==
    Len(s) >= Len(suffix) /\ SubSeq(s, Len(s) - Len(suffix) + 1, Len(s)) = suffix

TrimPrefix(s, prefix) ==
    IF HasPrefix(s, prefix) THEN SubSeq(s, Len(prefix) + 1, Len(s)) ELSE s

TrimSuffix(s, suffix) ==
    IF HasSuffix(s, suffix) THEN SubSeq(s, 1, Len(s) - Len(suffix)) ELSE s

\* strings.Split(s, sep) for a one-character sep: one more piece than
\* separators, empty pieces kept
RECURSIVE SplitFrom(_, _, _, _)
SplitFrom(s, sep, i, cur) ==
    IF i > Len(s) THEN <<cur>>
    ELSE IF s[i] = sep THEN <<cur>> \o SplitFrom(s, sep, i + 1, <<>>)
    ELSE SplitFrom(s, sep, i + 1, Append(cur, s[i]))

Split(s, sep) == SplitFrom(s, sep, 1, <<>>)

Digits == <<"0", "1", "2", "3", "4", "5", "6", "7", "8", "9">>

IsDigit(c) == \E i \in 1..Len(Digits) : Digits[i] = c
DigitValue(c) == (CHOOSE i \in 1..Len(Digits) : Digits[i] = c) - 1

\* strconv.ParseUint(s, 10, 32): digits only, no sign, no empty string, and
\* the value must fit 32 bits; the value is a uint32 <<hi, lo>>
RECURSIVE ParseUintFrom(_, _, _)
ParseUintFrom(s, i, acc) ==
    IF i > Len(s) THEN [val |-> acc, err |-> "nil"]
    ELSE IF ~IsDigit(s[i]) THEN [val |-> U32(0), err |-> "invalid syntax"]
    ELSE LET lo == acc[2] * 10 + DigitValue(s[i])
             hi == acc[1] * 10 + (lo \div Limb)
         IN IF hi >= Limb THEN [val |-> MaxUint32, err |-> "value out of range"]
            ELSE ParseUintFrom(s, i + 1, <<hi, lo % Limb>>)

ParseUint32(s) ==
    IF s = <<>> THEN [val |-> U32(0), err |-> "invalid syntax"]
    ELSE ParseUintFrom(s, 1, U32(0))

\* fmt's %d of a uint32
RECURSIVE FormatUint32(_)
FormatUint32(n) ==
    LET q1 == n[1] \div 10
        mid == (n[1] % 10) * Limb + n[2]
        q == <<q1, mid \div 10>>
        d == Digits[(mid % 10) + 1]
    IN IF q = U32(0) THEN <<d>> ELSE Append(FormatUint32(q), d)

----------------------------------------------------------------------------
\* HD wallet (pkg/crypto)

AddressTypeP2PKH == "P2PKH"
AddressTypeP2SH == "P2SH"
AddressTypeP2WPKH == "P2WPKH"

\* bip32.FirstHardenedChild = 0x80000000
FirstHardenedChild == <<HalfLimb, 0>>

\* Purpose returns the BIP44 purpose field for the address type
Purpose(at) ==
    IF at = AddressTypeP2PKH THEN U32(44)
    ELSE IF at = AddressTypeP2SH THEN U32(49)
    ELSE IF at = AddressTypeP2WPKH THEN U32(84)
    ELSE U32(44)

\* NewHDWallet creates a new HD wallet from a mnemonic phrase
NewHDWallet(mnemonic, passphrase) ==
    Bind(ValidateMnemonic(mnemonic), LAMBDA valid :
       IF valid # "nil"
       THEN [masterKey |-> NoKey, mnemonic |-> <<>>, err |-> valid]
       ELSE Bind(MnemonicToSeed(mnemonic, passphrase), LAMBDA seed :
          IF seed.err # "nil"
          THEN [masterKey |-> NoKey, mnemonic |-> <<>>, err |-> seed.err]
          ELSE Bind(NewMasterKey(seed.seed), LAMBDA master :
             IF master.err # "nil"
             THEN [masterKey |-> NoKey, mnemonic |-> <<>>,
                   err |-> "failed to create master key"]
             ELSE [masterKey |-> master.key, mnemonic |-> mnemonic, err |-> "nil"])))

NoDerive(e) == [key |-> NoKey, err |-> e, children |-> <<>>]

\* the loop of DerivePath over the segments from position i on; children
\* lists the indices NewChildKey was called with
RECURSIVE DeriveSegments(_, _, _, _)
DeriveSegments(key, segments, i, children) ==
    IF i > Len(segments) THEN [key |-> key, err |-> "nil", children |-> children]
    ELSE IF segments[i] = <<>> THEN NoDerive("invalid path: empty segment")
    ELSE LET hardened == HasSuffix(segments[i], <<"'">>)
             indexStr == TrimSuffix(segments[i], <<"'">>)
             parsed == ParseUint32(indexStr)
             childIndex == IF hardened THEN WAdd(parsed.val, FirstHardenedChild)
                           ELSE parsed.val
             child == NewChildKey(key, childIndex)
         IN IF parsed.err # "nil" THEN NoDerive("invalid index")
            ELSE Bind(child, LAMBDA c :
                    IF c.err # "nil" THEN NoDerive("failed to derive child")
                    ELSE DeriveSegments(c.key, segments, i + 1,
                                        Append(children, childIndex)))

\* DerivePath accepting any path that begins with m, the slash not required
DerivePath_LoosePrefix(masterKey, path) ==
    IF path = <<>> THEN NoDerive("path cannot be empty")
    ELSE IF ~HasPrefix(path, <<"m">>) THEN NoDerive("path must start with 'm/'")
    ELSE LET rest == TrimPrefix(TrimPrefix(path, <<"m">>), <<"/">>)
         IN IF rest = <<>> THEN [key |-> masterKey, err |-> "nil", children |-> <<>>]
            ELSE DeriveSegments(masterKey, Split(rest, "/"), 1, <<>>)

\* DerivePath derives a key from a BIP32 path
DerivePath(masterKey, path) ==
    IF path = <<>> THEN NoDerive("path cannot be empty")
    ELSE IF ~HasPrefix(path, <<"m", "/">>) THEN NoDerive("path must start with 'm/'")
    ELSE LET rest == TrimPrefix(path, <<"m", "/">>)
         IN IF rest = <<>> THEN [key |-> masterKey, err |-> "nil", children |-> <<>>]
            ELSE DeriveSegments(masterKey, Split(rest, "/"), 1, <<>>)

NoAccount ==
    [set |-> FALSE, key |-> NoKey, path |-> <<>>, coinType |-> U32(0),
     account |-> U32(0), addressType |-> ""]

\* DeriveAccount derives a BIP44 account: m / purpose' / coin_type' / account'.
\* DeriveAccount is a method of *HDWallet: masterKey in the result is the
\* wallet's key as the call leaves it, which is as it found it
DeriveAccount(masterKey, coinType, account, addressType) ==
    LET path == <<"m", "/">> \o FormatUint32(Purpose(addressType)) \o <<"'", "/">>
                \o FormatUint32(coinType) \o <<"'", "/">>
                \o FormatUint32(account) \o <<"'">>
    IN Bind(DerivePath(masterKey, path), LAMBDA d :
       IF d.err # "nil" THEN [masterKey |-> masterKey, acct |-> NoAccount, err |-> d.err]
       ELSE [masterKey |-> masterKey,
             acct |-> [set |-> TRUE, key |-> d.key, path |-> path, coinType |-> coinType,
                       account |-> account, addressType |-> addressType],
             err |-> "nil"])

NoAddress ==
    [set |-> FALSE, key |-> NoKey, publicKey |-> <<>>, privateKey |-> <<>>, path |-> <<>>,
     change |-> U32(0), index |-> U32(0)]

\* the address DeriveAddress returns for the keys it derived
AddressOf(acct, addressKey, change, index) ==
    [set |-> TRUE, key |-> addressKey,
     publicKey |-> PublicKeyBytes(addressKey.Key),
     privateKey |-> addressKey.Key,
     path |-> acct.path \o <<"/">> \o FormatUint32(change) \o <<"/">> \o FormatUint32(index),
     change |-> change, index |-> index]

\* DeriveAddress writing the path of the address into the account, a.path =
\* fmt.Sprintf(...) where the code declares a local variable
DeriveAddress_KeepsPath(acct, change, index) ==
    Bind(NewChildKey(acct.key, change), LAMBDA changeKey :
       IF changeKey.err # "nil"
       THEN [acct |-> acct, addr |-> NoAddress, err |-> "failed to derive change key"]
       ELSE Bind(NewChildKey(changeKey.key, index), LAMBDA addressKey :
          IF addressKey.err # "nil"
          THEN [acct |-> acct, addr |-> NoAddress, err |-> "failed to derive address key"]
          ELSE Bind(AddressOf(acct, addressKey.key, change, index), LAMBDA address :
                  [acct |-> [acct EXCEPT !.path = address.path], addr |-> address,
                   err |-> "nil"])))

\* DeriveAddress derives an address from the account: change, then index;
\* publicKey is SerializeCompressed of the public key, privateKey Serialize
\* of the private key. DeriveAddress is a method of *HDAccount: acct in the
\* result is the account as the call leaves it, which is as it found it
DeriveAddress(acct, change, index) ==
    Bind(NewChildKey(acct.key, change), LAMBDA changeKey :
       IF changeKey.err # "nil"
       THEN [acct |-> acct, addr |-> NoAddress, err |-> "failed to derive change key"]
       ELSE Bind(NewChildKey(changeKey.key, index), LAMBDA addressKey :
          IF addressKey.err # "nil"
          THEN [acct |-> acct, addr |-> NoAddress, err |-> "failed to derive address key"]
          ELSE [acct |-> acct, addr |-> AddressOf(acct, addressKey.key, change, index),
                err |-> "nil"]))

\* Scenario SpecWallet: two wallets built independently by NewHDWallet. Each
\* derives accounts, and addresses from the account it derived last, as
\* often as it likes; a wallet holds the account and the address of its last
\* calls, with their arguments. reused says that the wallet derived an
\* account or an address before the ones it holds.

WalletIds == {1, 2}

MaxIndex == 1

\* the mnemonic of the tests; one more valid mnemonic; then a wrong
\* checksum, a word outside the list, too few words, and the empty mnemonic
TestMnemonic ==
    <<"a", "b", "a", "n", "d", "o", "n", " ", "a", "b", "a", "n", "d", "o", "n", " ",
      "a", "b", "a", "n", "d", "o", "n", " ", "a", "b", "a", "n", "d", "o", "n", " ",
      "a", "b", "a", "n", "d", "o", "n", " ", "a", "b", "a", "n", "d", "o", "n", " ",
      "a", "b", "a", "n", "d", "o", "n", " ", "a", "b", "a", "n", "d", "o", "n", " ",
      "a", "b", "a", "n", "d", "o", "n", " ", "a", "b", "a", "n", "d", "o", "n", " ",
      "a", "b", "a", "n", "d", "o", "n", " ", "a", "b", "o", "u", "t">>

Mnemonics ==
    {TestMnemonic,
     <<"l", "e", "g", "a", "l", " ", "w", "i", "n", "n", "e", "r", " ", "t", "h", "a",
       "n", "k", " ", "y", "e", "a", "r", " ", "w", "a", "v", "e", " ", "s", "a", "u",
       "s", "a", "g", "e", " ", "w", "o", "r", "t", "h", " ", "u", "s", "e", "f", "u",
       "l", " ", "l", "e", "g", "a", "l", " ", "w", "i", "n", "n", "e", "r", " ", "t",
       "h", "a", "n", "k", " ", "y", "e", "l", "l", "o", "w">>,
     <<"a", "b", "a", "n", "d", "o", "n", " ", "a", "b", "a", "n", "d", "o", "n", " ",
       "a", "b", "a", "n", "d", "o", "n", " ", "a", "b", "a", "n", "d", "o", "n", " ",
       "a", "b", "a", "n", "d", "o", "n", " ", "a", "b", "a", "n", "d", "o", "n", " ",
       "a", "b", "a", "n", "d", "o", "n", " ", "a", "b", "a", "n", "d", "o", "n", " ",
       "a", "b", "a", "n", "d", "o", "n", " ", "a", "b", "a", "n", "d", "o", "n", " ",
       "a", "b", "a", "n", "d", "o", "n", " ", "a", "b", "a", "n", "d", "o", "n">>,
     <<"a", "b", "a", "n", "d", "o", "n", " ", "a", "b", "a", "n", "d", "o", "n", " ",
       "a", "b", "a", "n", "d", "o", "n", " ", "a", "b", "a", "n", "d", "o", "n", " ",
       "a", "b", "a", "n", "d", "o", "n", " ", "a", "b", "a", "n", "d", "o", "n", " ",
       "a", "b", "a", "n", "d", "o", "n", " ", "a", "b", "a", "n", "d", "o", "n", " ",
       "a", "b", "a", "n", "d", "o", "n", " ", "a", "b", "a", "n", "d", "o", "n", " ",
       "a", "b", "a", "n", "d", "o", "n", " ", "i", "n", "v", "a", "l", "i", "d">>,
     <<"a", "b", "a", "n", "d", "o", "n", " ", "a", "b", "a", "n", "d", "o", "n", " ",
       "a", "b", "o", "u", "t">>,
     <<>>}

Passphrases == {<<>>, <<"x">>}

CoinTypes == {U32(0), FirstHardenedChild}
Accounts == {U32(0)}
AddressTypes == {AddressTypeP2PKH, AddressTypeP2WPKH}
ChangeIndexes == {U32(0), U32(1)}
ChildIndexes == {U32(i) : i \in 0..MaxIndex}

\* NewHDWallet, DeriveAccount and DeriveAddress of the arguments of this
\* scenario, computed once; an argument that is not among them is computed
\* when it is met
WalletsKnown ==
    [in \in Mnemonics \X Passphrases |-> NewHDWallet(in[1], in[2])] @@ <<>>

AccountsKnown ==
    [in \in {WalletsKnown[w].masterKey : w \in {w \in DOMAIN WalletsKnown :
                                                  WalletsKnown[w].err = "nil"}}
            \X CoinTypes \X Accounts \X AddressTypes |->
        DeriveAccount(in[1], in[2], in[3], in[4])] @@ <<>>

AddressesKnown ==
    [in \in {AccountsKnown[a].acct : a \in {a \in DOMAIN AccountsKnown :
                                               AccountsKnown[a].err = "nil"}}
            \X ChangeIndexes \X ChildIndexes |->
        DeriveAddress(in[1], in[2], in[3])] @@ <<>>

NoWallet ==
    [built |-> FALSE, masterKey |-> NoKey, mnemonic |-> <<>>, passphrase |-> <<>>,
     acct |-> NoAccount, addr |-> NoAddress, reused |-> FALSE, err |-> "nil"]

\* valid is what ValidatePath returned for the path, "none" before the call
NoDerived ==
    [stage |-> "idle", path |-> <<>>, result |-> NoDerive("none"), valid |-> "none"]

InitWallet ==
    /\ wallets = [w \in WalletIds |-> NoWallet]
    /\ derived = NoDerived

CallNewHDWallet ==
    \E mnemonic \in Mnemonics, passphrase \in Passphrases :
        Bind(Known(WalletsKnown, <<mnemonic, passphrase>>,
                   LAMBDA in : NewHDWallet(in[1], in[2])), LAMBDA r :
          \E w \in WalletIds :
            /\ ~wallets[w].built
            /\ wallets' = [wallets EXCEPT ![w] =
                   IF r.err = "nil"
                   THEN [NoWallet EXCEPT !.built = TRUE, !.masterKey = r.masterKey,
                                         !.mnemonic = r.mnemonic, !.passphrase = passphrase]
                   ELSE [NoWallet EXCEPT !.err = r.err]]
            /\ UNCHANGED <<reg, bus, rpc, num, p2a, msg, derived, enc, sel, heap, tb, txs,
                           ret, log>>)

CallDeriveAccount ==
    \E w \in WalletIds, coinType \in CoinTypes, account \in Accounts,
       addressType \in AddressTypes :
        /\ wallets[w].built
        /\ Bind(Known(AccountsKnown, <<wallets[w].masterKey, coinType, account, addressType>>,
                      LAMBDA in : DeriveAccount(in[1], in[2], in[3], in[4])),
                LAMBDA r :
                    wallets' = [wallets EXCEPT
                                   ![w].masterKey = r.masterKey,
                                   ![w].acct = IF r.err = "nil" THEN r.acct ELSE @,
                                   ![w].addr = IF r.err = "nil" THEN NoAddress ELSE @,
                                   ![w].reused = @ \/ wallets[w].acct.set,
                                   ![w].err = r.err])
        /\ UNCHANGED <<reg, bus, rpc, num, p2a, msg, derived, enc, sel, heap, tb, txs, ret, log>>

CallDeriveAddress ==
    \E w \in WalletIds, change \in ChangeIndexes, index \in ChildIndexes :
        /\ wallets[w].acct.set
        /\ Bind(Known(AddressesKnown, <<wallets[w].acct, change, index>>,
                      LAMBDA in : DeriveAddress(in[1], in[2], in[3])), LAMBDA r :
               wallets' = [wallets EXCEPT ![w].acct = r.acct,
                                          ![w].addr = IF r.err = "nil" THEN r.addr ELSE @,
                                          ![w].reused = @ \/ wallets[w].addr.set,
                                          ![w].err = r.err])
        /\ UNCHANGED <<reg, bus, rpc, num, p2a, msg, derived, enc, sel, heap, tb, txs, ret, log>>

\* Scenario SpecPath: DerivePath on one wallet, for one path string.

MaxPathLen == 3

PathChars == {"m", "/", "1", "'", "x"}

Chars(n) == FormatUint32(U32(n))

ExplicitPaths ==
    {<<"m", "/">> \o Chars(44) \o <<"'", "/">> \o Chars(0) \o <<"'", "/">> \o Chars(0)
         \o <<"'", "/", "0", "/", "0">>,
     <<"m", "/">> \o Chars(44) \o <<"h", "/">> \o Chars(0) \o <<"h", "/", "0">>,
     <<"m", "/">> \o Chars(44) \o <<"h", "/">> \o Chars(0) \o <<"h", "/">> \o Chars(0)
         \o <<"h", "/", "0", "/", "0">>,
     <<"m", "/">> \o FormatUint32(FirstHardenedChild),
     <<"m", "/">> \o Chars(44) \o <<"'", "/", "/", "0">>,
     <<"m", "/">> \o Chars(44) \o <<"'", "/", "a", "b", "c">>,
     <<"m", "/", "-", "1">>, <<"m", "/", "+", "1">>, <<"m", "/", "1", "'", "'">>,
     <<"m", "/", "0", "/">>, <<"M", "/", "0">>, <<"/", "m", "/", "0">>,
     <<"4", "4", "'", "/", "0", "'">>,
     <<"m", "/">> \o FormatUint32(MaxUint32),
     <<"m", "/">> \o FormatUint32(MaxUint32) \o <<"0">>,
     <<"m", "/">> \o FormatUint32(FirstHardenedChild) \o <<"'">>}

PathInputs ==
    SeqsUpTo(PathChars, MaxPathLen)
    \cup {<<"m", "/">> \o t : t \in SeqsUpTo(PathChars, MaxPathLen)}
    \cup ExplicitPaths

PathWallet(mnemonic) ==
    Bind(NewHDWallet(mnemonic, <<>>), LAMBDA r :
        [NoWallet EXCEPT !.built = TRUE, !.masterKey = r.masterKey, !.mnemonic = r.mnemonic])

InitPath ==
    /\ wallets = [w \in WalletIds |-> IF w = 1 THEN PathWallet(TestMnemonic) ELSE NoWallet]
    /\ \E path \in PathInputs : derived = [NoDerived EXCEPT !.stage = "input", !.path = path]

CallDerivePath ==
    /\ derived.stage = "input"
    /\ derived' = [derived EXCEPT !.stage = "done",
                                  !.result = DerivePath(wallets[1].masterKey, derived.path)]
    /\ UNCHANGED <<reg, bus, rpc, num, p2a, msg, wallets, enc, sel, heap, tb, txs, ret, log>>

\* the regular expression ^m(/\d+['h]?)*$ as the automaton that reads the
\* string from its first to its last character
PathRegexStep(state, c) ==
    IF state = "start" THEN (IF c = "m" THEN "m" ELSE "fail")
    ELSE IF state \in {"m", "marker"} THEN (IF c = "/" THEN "slash" ELSE "fail")
    ELSE IF state = "slash" THEN (IF IsDigit(c) THEN "digits" ELSE "fail")
    ELSE IF state = "digits"
    THEN (IF IsDigit(c) THEN "digits"
          ELSE IF c \in {"'", "h"} THEN "marker"
          ELSE IF c = "/" THEN "slash"
          ELSE "fail")
    ELSE "fail"

RECURSIVE PathRegexRun(_, _, _)
PathRegexRun(s, i, state) ==
    IF i > Len(s) \/ state = "fail" THEN state
    ELSE PathRegexRun(s, i + 1, PathRegexStep(state, s[i]))

\* pathRegex.MatchString
MatchString(s) == PathRegexRun(s, 1, "start") \in {"m", "digits", "marker"}

\* ValidatePath validates a BIP32 derivation path
ValidatePath(path) ==
    IF path = <<>> THEN "path cannot be empty"
    ELSE IF ~HasPrefix(path, <<"m", "/">>) THEN "path must start with 'm/'"
    ELSE IF ~MatchString(path) THEN "invalid path format"
    ELSE "nil"

CallValidatePath ==
    /\ derived.stage # "idle"
    /\ derived.valid = "none"
    /\ derived' = [derived EXCEPT !.valid = ValidatePath(derived.path)]
    /\ UNCHANGED <<reg, bus, rpc, num, p2a, msg, wallets, enc, sel, heap, tb, txs, ret, log>>

----------------------------------------------------------------------------
\* RIPEMD-160, which golang.org/x/crypto/ripemd160 implements: two lanes of
\* 80 steps on 32-bit words read little-endian.

\* (x OR NOT y) XOR z
OrNotXor4 ==
    [a \in 0..15 |-> [b \in 0..15 |-> [c \in 0..15 |->
        FromBits4([i \in 1..4 |->
            (IF Bits4(a)[i] = 1 \/ Bits4(b)[i] = 0 THEN 1 ELSE 0) + Bits4(c)[i]
            - 2 * (IF Bits4(a)[i] = 1 \/ Bits4(b)[i] = 0 THEN Bits4(c)[i] ELSE 0)])]]]

OrNotXor32(x, y, z) == Bitwise32(OrNotXor4, x, y, z)

\* x rotated left by n bits, 0 < n < 32
RotL(x, n) == RotR(x, 32 - n)

\* the word read at each step, counted from 0: left lane, right lane
RmdWordLeft ==
    <<
     0, 1, 2, 3, 4, 5, 6, 7, 8, 9, 10, 11, 12, 13, 14, 15,
     7, 4, 13, 1, 10, 6, 15, 3, 12, 0, 9, 5, 2, 14, 11, 8,
     3, 10, 14, 4, 9, 15, 8, 1, 2, 7, 0, 6, 13, 11, 5, 12,
     1, 9, 11, 10, 0, 8, 12, 4, 13, 3, 7, 15, 14, 5, 6, 2,
     4, 0, 5, 9, 7, 12, 2, 10, 14, 1, 3, 8, 11, 6, 15, 13
    >>

RmdWordRight ==
    <<
     5, 14, 7, 0, 9, 2, 11, 4, 13, 6, 15, 8, 1, 10, 3, 12,
     6, 11, 3, 7, 0, 13, 5, 10, 14, 15, 8, 12, 4, 9, 1, 2,
     15, 5, 1, 3, 7, 14, 6, 9, 11, 8, 12, 2, 10, 0, 4, 13,
     8, 6, 4, 1, 3, 11, 15, 0, 5, 12, 2, 13, 9, 7, 10, 14,
     12, 15, 10, 4, 1, 5, 8, 7, 6, 2, 13, 14, 0, 3, 9, 11
    >>

\* the rotation of each step: left lane, right lane
RmdShiftLeft ==
    <<
     11, 14, 15, 12, 5, 8, 7, 9, 11, 13, 14, 15, 6, 7, 9, 8,
     7, 6, 8, 13, 11, 9, 7, 15, 7, 12, 15, 9, 11, 7, 13, 12,
     11, 13, 6, 7, 14, 9, 13, 15, 14, 8, 13, 6, 5, 12, 7, 5,
     11, 12, 14, 15, 14, 15, 9, 8, 9, 14, 5, 6, 8, 6, 5, 12,
     9, 15, 5, 11, 6, 8, 13, 12, 5, 12, 13, 14, 11, 8, 5, 6
    >>

RmdShiftRight ==
    <<
     8, 9, 9, 11, 13, 15, 15, 5, 7, 7, 8, 11, 14, 14, 12, 6,
     9, 13, 15, 7, 12, 8, 9, 11, 7, 7, 12, 7, 6, 15, 13, 11,
     9, 7, 15, 11, 8, 6, 6, 14, 12, 13, 5, 14, 13, 13, 7, 5,
     15, 5, 8, 11, 14, 14, 6, 14, 6, 9, 12, 9, 12, 5, 15, 8,
     8, 5, 12, 9, 12, 5, 14, 6, 8, 13, 6, 5, 15, 13, 11, 11
    >>

\* the constant added in each group of 16 steps: left lane, right lane
RmdKLeft == <<<<0, 0>>, <<23170, 31129>>, <<28377, 60321>>, <<36635, 48348>>, <<43347, 64846>>>>
RmdKRight == <<<<20642, 35814>>, <<23629, 53540>>, <<28016, 16115>>, <<31341, 30441>>, <<0, 0>>>>

RmdInit == <<<<26437, 8961>>, <<61389, 43913>>, <<39098, 56574>>, <<4146, 21622>>, <<50130, 57840>>>>

\* the function of group g of 16 steps
RmdF(g, x, y, z) ==
    CASE g = 0 -> Xor32(x, y, z)
      [] g = 1 -> Ch32(x, y, z)
      [] g = 2 -> OrNotXor32(x, y, z)
      [] g = 3 -> Ch32(z, x, y)
      [] g = 4 -> OrNotXor32(y, z, x)

\* the message with its padding: 0x80, zeros, and the length in bits as 8
\* bytes, little-endian (messages of the model are shorter than 8192 bytes)
RmdPad(data) ==
    data \o <<128>> \o [i \in 1..((119 - (Len(data) % 64)) % 64) |-> 0]
    \o <<(8 * Len(data)) % 256, (8 * Len(data)) \div 256, 0, 0, 0, 0, 0, 0>>

\* the little-endian word i of the block that starts at byte `at`
RmdWord(m, at, i) ==
    <<256 * m[at + 4 * i - 1] + m[at + 4 * i - 2], 256 * m[at + 4 * i - 3] + m[at + 4 * i - 4]>>

\* the words lo..hi of the block that starts at byte `at`, by halves
RECURSIVE RmdBlock(_, _, _, _)
RmdBlock(m, at, lo, hi) ==
    IF lo < hi
    THEN RmdBlock(m, at, lo, (lo + hi) \div 2) \o RmdBlock(m, at, (lo + hi) \div 2 + 1, hi)
    ELSE <<RmdWord(m, at, lo)>>

\* one step of a lane on <<a, b, c, d, e>>
RmdStep(v, f, x, k, s) ==
    <<v[5], Add32(RotL(Add32(Add32(v[1], f), Add32(x, k)), s), v[5]), v[2],
      RotL(v[3], 10), v[4]>>

\* the steps lo..hi of the left lane, of the right lane, by halves
RECURSIVE RmdLeft(_, _, _, _)
RmdLeft(v, x, lo, hi) ==
    IF lo < hi /\ Len(v) = 5
    THEN RmdLeft(RmdLeft(v, x, lo, (lo + hi) \div 2), x, (lo + hi) \div 2 + 1, hi)
    ELSE RmdStep(v, RmdF(lo \div 16, v[2], v[3], v[4]), x[RmdWordLeft[lo + 1] + 1],
                 RmdKLeft[lo \div 16 + 1], RmdShiftLeft[lo + 1])

RECURSIVE RmdRight(_, _, _, _)
RmdRight(v, x, lo, hi) ==
    IF lo < hi /\ Len(v) = 5
    THEN RmdRight(RmdRight(v, x, lo, (lo + hi) \div 2), x, (lo + hi) \div 2 + 1, hi)
    ELSE RmdStep(v, RmdF(4 - lo \div 16, v[2], v[3], v[4]), x[RmdWordRight[lo + 1] + 1],
                 RmdKRight[lo \div 16 + 1], RmdShiftRight[lo + 1])

\* the hash value after a block, from the two lanes l and r
RmdAdd(h, l, r) ==
    <<Add32(Add32(h[2], l[3]), r[4]), Add32(Add32(h[3], l[4]), r[5]),
      Add32(Add32(h[4], l[5]), r[1]), Add32(Add32(h[5], l[1]), r[2]),
      Add32(Add32(h[1], l[2]), r[3])>>

\* both lanes on the words x of a block
RmdLanes(h, x) == RmdAdd(h, RmdLeft(h, x, 0, 79), RmdRight(h, x, 0, 79))

RECURSIVE RmdBlocks(_, _, _)
RmdBlocks(m, at, h) ==
    IF at > Len(m) THEN h
    ELSE RmdBlocks(m, at + 64, RmdLanes(h, RmdBlock(m, at, 1, 16)))

\* the bytes of a 32-bit word, little-endian
WordLittleEndian(x) == <<x[2] % 256, x[2] \div 256, x[1] % 256, x[1] \div 256>>

\* the bytes of 32-bit words lo..hi of h, each little-endian
RECURSIVE WordsLittleEndian(_, _, _)
WordsLittleEndian(h, lo, hi) ==
    IF lo < hi
    THEN WordsLittleEndian(h, lo, (lo + hi) \div 2)
         \o WordsLittleEndian(h, (lo + hi) \div 2 + 1, hi)
    ELSE WordLittleEndian(h[lo])

\* ripemd160.New(), Write, Sum(nil)
Ripemd160(data) == WordsLittleEndian(RmdBlocks(RmdPad(data), 1, RmdInit), 1, 5)

----------------------------------------------------------------------------
\* Addresses from public keys (pkg/bitcoin); btcutil/bech32 is modelled bit
\* for bit.

Mainnet == "mainnet"
Testnet == "testnet"
Regtest == "regtest"

P2PKH == "P2PKH"
P2SH == "P2SH"
P2WPKH == "P2WPKH"

\* hash160 performs SHA256 followed by RIPEMD160
hash160(data) == Ripemd160(Sum256(data))

\* 2^n for n in 0..30
Pow2(n) ==
    <<1, 2, 4, 8, 16, 32, 64, 128, 256, 512, 1024, 2048, 4096, 8192, 16384, 32768,
      65536, 131072, 262144, 524288, 1048576, 2097152, 4194304, 8388608, 16777216,
      33554432, 67108864, 134217728, 268435456, 536870912, 1073741824>>[n + 1]

\* bit k (0 = most significant bit of the first byte) of a byte string, 0
\* beyond its end
BitAt(data, k) ==
    IF k >= 8 * Len(data) THEN 0
    ELSE (data[(k \div 8) + 1] \div Pow2(7 - (k % 8))) % 2

\* bech32.ConvertBits(data, 8, 5, true): the bits regrouped by 5, the last
\* group padded with zero bits
ConvertBits8to5(data) ==
    [j \in 1..((8 * Len(data) + 4) \div 5) |->
        16 * BitAt(data, 5 * j - 5) + 8 * BitAt(data, 5 * j - 4)
        + 4 * BitAt(data, 5 * j - 3) + 2 * BitAt(data, 5 * j - 2)
        + BitAt(data, 5 * j - 1)]

Bech32Charset ==
    <<"q", "p", "z", "r", "y", "9", "x", "8", "g", "f", "2", "t", "v", "d", "w", "0",
      "s", "3", "j", "n", "5", "4", "k", "h", "c", "e", "6", "m", "u", "a", "7", "l">>

\* a ^ b on 5-bit values
Xor5(a, b) ==
    ((a + b) % 2)
    + 2 * (((a \div 2) + (b \div 2)) % 2)
    + 4 * (((a \div 4) + (b \div 4)) % 2)
    + 8 * (((a \div 8) + (b \div 8)) % 2)
    + 16 * (((a \div 16) + (b \div 16)) % 2)

\* a ^ b on 30-bit values, five bits at a time
XorInt(a, b) ==
    Xor5(a % 32, b % 32)
    + 32 * Xor5((a \div 32) % 32, (b \div 32) % 32)
    + 1024 * Xor5((a \div 1024) % 32, (b \div 1024) % 32)
    + 32768 * Xor5((a \div 32768) % 32, (b \div 32768) % 32)
    + 1048576 * Xor5((a \div 1048576) % 32, (b \div 1048576) % 32)
    + 33554432 * Xor5((a \div 33554432) % 32, (b \div 33554432) % 32)

\* the generator words of the bech32 checksum
Bech32Gen == <<996825010, 642813549, 513874426, 1027748829, 705979059>>

\* one round of bech32Polymod: b := chk >> 25; chk = (chk & 0x1ffffff) << 5 ^ v;
\* then chk ^= gen[i] for every set bit i of b
PolymodStep(chk, v) ==
    LET b == chk \div Pow2(25)
        shifted == XorInt((chk % Pow2(25)) * 32, v)
        mix(acc, i) == IF (b \div Pow2(i)) % 2 = 1 THEN XorInt(acc, Bech32Gen[i + 1]) ELSE acc
    IN mix(mix(mix(mix(mix(shifted, 0), 1), 2), 3), 4)

\* bech32Polymod from the value i on; the test on chk makes the state of
\* each round a value before the next round starts
RECURSIVE PolymodFrom(_, _, _)
PolymodFrom(values, i, chk) ==
    IF i > Len(values) \/ chk < 0 THEN chk
    ELSE PolymodFrom(values, i + 1, PolymodStep(chk, values[i]))

\* the code of a lower-case letter or digit of a human-readable part
HrpChars ==
    [c \in {"b", "c", "r", "t"} |->
        IF c = "b" THEN 98 ELSE IF c = "c" THEN 99 ELSE IF c = "r" THEN 114 ELSE 116]

HrpExpand(hrp) ==
    [i \in 1..Len(hrp) |-> HrpChars[hrp[i]] \div 32] \o <<0>>
    \o [i \in 1..Len(hrp) |-> HrpChars[hrp[i]] % 32]

\* bech32.Encode(hrp, data): hrp, the separator 1, the data and the six
\* checksum characters; an error on a value of more than 5 bits
Bech32Encode(hrp, data) ==
    IF \E i \in 1..Len(data) : data[i] >= 32
    THEN [text |-> <<>>, err |-> "invalid data byte"]
    ELSE LET values == HrpExpand(hrp) \o data \o <<0, 0, 0, 0, 0, 0>>
             mod == XorInt(PolymodFrom(values, 1, 1), 1)
             sum == [k \in 1..6 |-> (mod \div Pow2(5 * (6 - k))) % 32]
         IN [text |-> hrp \o <<"1">>
                          \o [i \in 1..Len(data) |-> Bech32Charset[data[i] + 1]]
                          \o [k \in 1..6 |-> Bech32Charset[sum[k] + 1]],
             err |-> "nil"]

NoAddressText(e) == [address |-> <<>>, err |-> e]

\* pubKeyToP2PKH choosing the mainnet version for a network it does not know
pubKeyToP2PKH_DefaultNetwork(pubKey, network) ==
    [address |-> EncodeBase58Check(
                     IF network \in {Testnet, Regtest} THEN P2PKHVersionTestnet
                     ELSE P2PKHVersionMainnet,
                     hash160(pubKey)),
     err |-> "nil"]

\* pubKeyToP2PKH creates a P2PKH (Legacy) address
pubKeyToP2PKH(pubKey, network) ==
    IF network \in {Mainnet, Testnet, Regtest}
    THEN [address |-> EncodeBase58Check(IF network = Mainnet THEN P2PKHVersionMainnet
                                        ELSE P2PKHVersionTestnet,
                                        hash160(pubKey)),
          err |-> "nil"]
    ELSE NoAddressText("unsupported network")

\* pubKeyToP2SH creates a P2SH-P2WPKH (Nested SegWit) address
pubKeyToP2SH(pubKey, network) ==
    IF network \in {Mainnet, Testnet, Regtest}
    THEN [address |-> EncodeBase58Check(IF network = Mainnet THEN P2SHVersionMainnet
                                        ELSE P2SHVersionTestnet,
                                        hash160(<<0, 20>> \o hash160(pubKey))),
          err |-> "nil"]
    ELSE NoAddressText("unsupported network")

\* pubKeyToP2WPKH creates a P2WPKH (Native SegWit/Bech32) address
pubKeyToP2WPKH(pubKey, network) ==
    LET hrp == IF network = Mainnet THEN <<"b", "c">>
               ELSE IF network = Testnet THEN <<"t", "b">>
               ELSE <<"b", "c", "r", "t">>
        encoded == Bech32Encode(hrp, <<0>> \o ConvertBits8to5(hash160(pubKey)))
    IN IF network \notin {Mainnet, Testnet, Regtest}
       THEN NoAddressText("unsupported network")
       ELSE Bind(encoded, LAMBDA e :
                IF e.err # "nil" THEN NoAddressText("failed to encode bech32")
                ELSE [address |-> e.text, err |-> "nil"])

\* PubKeyToAddress converts a public key to a Bitcoin address
PubKeyToAddress(pubKey, addrType, network) ==
    IF addrType = P2PKH THEN pubKeyToP2PKH(pubKey, network)
    ELSE IF addrType = P2SH THEN pubKeyToP2SH(pubKey, network)
    ELSE IF addrType = P2WPKH THEN pubKeyToP2WPKH(pubKey, network)
    ELSE NoAddressText("unsupported address type")

\* Scenario SpecAddress: one call of PubKeyToAddress.

MaxKeyLen == 1

PubKeys ==
    SeqsUpTo({2, 255}, MaxKeyLen)
    \cup {<<2>> \o Repeat(121, 32), <<3>> \o Repeat(0, 32), <<4>> \o Repeat(7, 64)}

AddrTypes == {P2PKH, P2SH, P2WPKH, "P2TR", "p2pkh", ""}
Networks == {Mainnet, Testnet, Regtest, "signet", "MAINNET", ""}

P2aIdle ==
    [stage |-> "idle", pubKey |-> <<>>, addrType |-> "", network |-> "",
     result |-> NoAddressText("none")]

InitAddress ==
    \E pubKey \in PubKeys, addrType \in AddrTypes, network \in Networks :
        p2a = [P2aIdle EXCEPT !.stage = "input", !.pubKey = pubKey,
                              !.addrType = addrType, !.network = network]

CallPubKeyToAddress ==
    /\ p2a.stage = "input"
    /\ p2a' = [p2a EXCEPT !.stage = "done",
                          !.result = PubKeyToAddress(p2a.pubKey, p2a.addrType, p2a.network)]
    /\ UNCHANGED <<reg, bus, rpc, num, msg, enc, sel, heap, tb, txs, ret, wallets, derived, log>>

----------------------------------------------------------------------------
\* Signing (internal/adapters/bitcoin/core/sign.go) on a wire.MsgTx of
\* github.com/btcsuite/btcd. The transaction is held through a pointer, so a
\* call acts on the one transaction of the scenario. The signature itself is
\* a library value, modelled as a digest of what is signed.

MaxTxInSequenceNum == <<Limb - 1, Limb - 1>>

\* wire.NewMsgTx(version)
NewMsgTx(version) == [Version |-> version, TxIn |-> <<>>, TxOut |-> <<>>, LockTime |-> U32(0)]

\* wire.NewTxIn(prevOut, signatureScript, nil)
NewTxIn(prevOut, signatureScript) ==
    [PreviousOutPoint |-> prevOut, SignatureScript |-> signatureScript,
     Sequence |-> MaxTxInSequenceNum]

\* wire.NewTxOut(value, pkScript)
NewTxOut(value, pkScript) == [Value |-> value, PkScript |-> pkScript]

\* a Go call that ended in a run-time panic leaves no result
Panic == "panic: runtime error: index out of range"

\* AttachScriptSig storing the script in every input
AttachScriptSig_AllInputs(tx, idx, scriptSig) ==
    IF idx < 0 \/ idx >= Len(tx.TxIn)
    THEN [tx |-> tx, panic |-> Panic]
    ELSE [tx |-> [tx EXCEPT !.TxIn = [j \in 1..Len(tx.TxIn) |->
                                          [tx.TxIn[j] EXCEPT !.SignatureScript = scriptSig]]],
          panic |-> "nil"]

\* AttachScriptSig: tx.TxIn[idx].SignatureScript = scriptSig; Go indexes the
\* slice with a bounds check that panics
AttachScriptSig(tx, idx, scriptSig) ==
    IF idx < 0 \/ idx >= Len(tx.TxIn)
    THEN [tx |-> tx, panic |-> Panic]
    ELSE [tx |-> [tx EXCEPT !.TxIn[idx + 1].SignatureScript = scriptSig], panic |-> "nil"]

\* txscript opcodes that carry data: 1..75 push that many bytes, and
\* OP_PUSHDATA1, 2 and 4 are followed by a length of 1, 2 or 4 bytes
OP_DATA_75 == 75
OP_PUSHDATA1 == 76
OP_PUSHDATA2 == 77
OP_PUSHDATA4 == 78
OP_CODESEPARATOR == 171

\* ScriptTokenizer.Next at byte i of the script: whether an opcode parses
\* there, and the index of the byte after it.  The length of OP_PUSHDATA4 is
\* an int32: a value that is negative or above the bytes left is an error, so
\* a length with a non-zero upper half never fits a script of the model
TokenAt(script, i) ==
    LET op == script[i]
        left == Len(script) - i
    IN IF op >= 1 /\ op <= OP_DATA_75
       THEN [ok |-> op <= left, next |-> i + 1 + op]
       ELSE IF op = OP_PUSHDATA1
       THEN IF left < 1 THEN [ok |-> FALSE, next |-> i]
            ELSE [ok |-> script[i + 1] <= left - 1, next |-> i + 2 + script[i + 1]]
       ELSE IF op = OP_PUSHDATA2
       THEN IF left < 2 THEN [ok |-> FALSE, next |-> i]
            ELSE LET dataLen == script[i + 1] + Byte * script[i + 2]
                 IN [ok |-> dataLen <= left - 2, next |-> i + 3 + dataLen]
       ELSE IF op = OP_PUSHDATA4
       THEN IF left < 4 THEN [ok |-> FALSE, next |-> i]
            ELSE LET dataLen == script[i + 1] + Byte * script[i + 2]
                 IN [ok |-> script[i + 3] = 0 /\ script[i + 4] = 0 /\ dataLen <= left - 4,
                     next |-> i + 5 + dataLen]
       ELSE [ok |-> TRUE, next |-> i + 1]

\* checkScriptParses: the tokenizer reads the script to its end without error
RECURSIVE ScriptParses(_, _)
ScriptParses(script, i) ==
    IF i > Len(script) THEN TRUE
    ELSE LET t == TokenAt(script, i)
         IN t.ok /\ ScriptParses(script, t.next)

\* removeOpcodeRaw on a script that parses: the opcodes other than `opcode`,
\* each with its data, in order
RECURSIVE removeOpcodeRawFrom(_, _, _)
removeOpcodeRawFrom(script, opcode, i) ==
    IF i > Len(script) THEN <<>>
    ELSE LET t == TokenAt(script, i)
         IN (IF script[i] = opcode THEN <<>> ELSE SubSeq(script, i, t.next - 1))
            \o removeOpcodeRawFrom(script, opcode, t.next)

removeOpcodeRaw(script, opcode) == removeOpcodeRawFrom(script, opcode, 1)

\* wire.MsgTx.SerializeNoWitness
SerializeNoWitness(tx) ==
    LittleEndian(U32(tx.Version))
    \o writeVarInt(U64(Len(tx.TxIn)))
    \o Concat([j \in 1..Len(tx.TxIn) |->
           tx.TxIn[j].PreviousOutPoint.Hash
           \o LittleEndian(U32(tx.TxIn[j].PreviousOutPoint.Index))
           \o writeVarInt(U64(Len(tx.TxIn[j].SignatureScript)))
           \o tx.TxIn[j].SignatureScript
           \o LittleEndian(tx.TxIn[j].Sequence)])
    \o writeVarInt(U64(Len(tx.TxOut)))
    \o Concat([j \in 1..Len(tx.TxOut) |->
           LittleEndian(U64(tx.TxOut[j].Value))
           \o writeVarInt(U64(Len(tx.TxOut[j].PkScript)))
           \o tx.TxOut[j].PkScript])
    \o LittleEndian(tx.LockTime)

SigHashAll == 1

\* chainhash.DoubleHashB
DoubleHashB(b) == Sum256(Sum256(b))

\* what txscript.CalcSignatureHash hashes for SigHashAll: a copy of the
\* transaction with the script, less its OP_CODESEPARATORs, in the input idx
\* and no script in the others, followed by the hash type as a uint32
SigHashPreimage(tx, idx, script) ==
    LET sigScript == removeOpcodeRaw(script, OP_CODESEPARATOR)
        txCopy == [tx EXCEPT !.TxIn =
                      [j \in 1..Len(tx.TxIn) |->
                          [tx.TxIn[j] EXCEPT !.SignatureScript =
                              IF j = idx + 1 THEN sigScript ELSE <<>>]]]
    IN SerializeNoWitness(txCopy) \o LittleEndian(U32(SigHashAll))

\* priv.PubKey().SerializeCompressed(), priv the 32 bytes of the key
SerializeCompressed(priv) == PublicKeyBytes(priv)

\* SignP2PKH: the signature script <sig+hashtype> <pubkey>, or an error when
\* the previous script does not parse; the transaction is only read.  The
\* signature is ecdsa.Sign(priv, hash).Serialize(), the DER of R and S
SignP2PKH(tx, idx, prevPkScript, priv) ==
    IF ~ScriptParses(prevPkScript, 1)
    THEN [scriptSig |-> <<>>, err |-> "calc sig hash failed"]
    ELSE Eager(DoubleHashB(SigHashPreimage(tx, idx, prevPkScript)), LAMBDA hash :
            Bind(SerializeSignature(Sign(priv, hash)) \o <<SigHashAll>>,
                 LAMBDA derWithHashType :
                    Bind(SerializeCompressed(priv), LAMBDA pubkey :
                        [scriptSig |-> <<Len(derWithHashType)>> \o derWithHashType
                                           \o <<Len(pubkey)>> \o pubkey,
                         err |-> "nil"])))

\* Scenario SpecSign: a transaction is assembled, SignP2PKH is called on it
\* as TestSignP2PKH does, and then signature scripts are attached, the one
\* SignP2PKH made or another, with any index.

MaxTxIn == 2
MaxTxOut == 1
MaxSignCalls == 2

\* the private key 5, on 32 bytes
TestKey == Repeat(0, 31) \o <<5>>
PrivKeys == {TestKey}

\* the P2PKH script of the key, as TestSignP2PKH builds it: OP_DUP
\* OP_HASH160, the hash160 of the compressed public key, OP_EQUALVERIFY
\* OP_CHECKSIG
OutScript == <<118, 169, 20>> \o hash160(SerializeCompressed(TestKey)) \o <<136, 172>>

\* previous scripts: empty, the P2PKH script of the key, a push short of its
\* data, one with OP_CODESEPARATOR, and OP_PUSHDATA2 with and without its
\* length
PrevScripts ==
    {<<>>, OutScript, <<2, 7>>, <<171, 118>>, <<77>>, <<77, 1, 0, 9>>}
SigScripts == {<<>>, <<1, 9>>}

MsgIdle ==
    [tx |-> NewMsgTx(2), op |-> "none", idx |-> 0, arg |-> <<>>, calls |-> 0,
     scriptSig |-> <<>>, err |-> "nil", panic |-> "nil"]

InitSign == msg = MsgIdle

CallAddTxIn ==
    /\ msg.panic = "nil" /\ msg.calls = 0
    /\ Len(msg.tx.TxIn) < MaxTxIn
    /\ msg' = [msg EXCEPT !.op = "AddTxIn",
                          !.tx.TxIn = Append(@, NewTxIn([Hash |-> Repeat(0, 32),
                                                         Index |-> Len(@)], <<>>))]
    /\ UNCHANGED <<reg, bus, rpc, num, p2a, enc, sel, heap, tb, txs, ret, wallets, derived, log>>

CallAddTxOut ==
    /\ msg.panic = "nil" /\ msg.calls = 0
    /\ Len(msg.tx.TxOut) < MaxTxOut
    /\ msg' = [msg EXCEPT !.op = "AddTxOut",
                          !.tx.TxOut = Append(@, NewTxOut(50000000, OutScript))]
    /\ UNCHANGED <<reg, bus, rpc, num, p2a, enc, sel, heap, tb, txs, ret, wallets, derived, log>>

CallSignP2PKH ==
    /\ msg.panic = "nil" /\ msg.calls = 0 /\ MaxSignCalls > 0
    /\ \E idx \in (0 - 1)..MaxTxIn, prevPkScript \in PrevScripts, priv \in PrivKeys :
        Bind(SignP2PKH(msg.tx, idx, prevPkScript, priv), LAMBDA r :
            msg' = [msg EXCEPT !.op = "SignP2PKH", !.idx = idx, !.arg = prevPkScript,
                               !.calls = @ + 1, !.scriptSig = r.scriptSig, !.err = r.err])
    /\ UNCHANGED <<reg, bus, rpc, num, p2a, enc, sel, heap, tb, txs, ret, wallets, derived, log>>

CallAttachScriptSig ==
    /\ msg.panic = "nil" /\ msg.calls < MaxSignCalls
    /\ \E idx \in (0 - 1)..MaxTxIn, scriptSig \in SigScripts \cup {msg.scriptSig} :
        LET r == AttachScriptSig(msg.tx, idx, scriptSig)
        IN msg' = [msg EXCEPT !.op = "AttachScriptSig", !.idx = idx, !.arg = scriptSig,
                              !.calls = @ + 1, !.tx = r.tx, !.panic = r.panic]
    /\ UNCHANGED <<reg, bus, rpc, num, p2a, enc, sel, heap, tb, txs, ret, wallets, derived, log>>

----------------------------------------------------------------------------
\* Fee estimation (pkg/bitcoin) and the scenarios of the numeric functions.

\* a * k for a word a and 0 <= k < 2^15, with the carry out of the top limb:
\* <<carry, wrapped product>>
RECURSIVE WMulFrom(_, _, _, _, _)
WMulFrom(a, k, i, carry, acc) ==
    IF i = 0 THEN <<carry, acc>>
    ELSE LET s == a[i] * k + carry
         IN WMulFrom(a, k, i - 1, s \div Limb, <<s % Limb>> \o acc)

WMulCarry(a, k) == WMulFrom(a, k, Len(a), 0, <<>>)

\* EstimateTransactionSize estimates the size of a transaction in bytes
EstimateTransactionSize(inputCount, outputCount) ==
    LET base == 10
        inputSize == 148 * inputCount
        outputSize == 34 * outputCount
    IN base + inputSize + outputSize

\* CalculateFee: uint64(size) * feeRateSatPerByte, a uint64 product
CalculateFee(inputCount, outputCount, feeRateSatPerByte) ==
    LET size == EstimateTransactionSize(inputCount, outputCount)
    IN WMulCarry(feeRateSatPerByte, size)[2]

\* Scenario SpecVarInt: one call of writeVarInt on an empty buffer.
\* Scenario SpecFee: one call of CalculateFee.

MaxCount == 3

VarIntLimbs == {0, 1, Limb - 1}
VarIntLow == {0, 1, 252, 253, 254, 255, 256, Limb - 2, Limb - 1}
VarIntArgs == {<<a, b, c, d>> : a \in VarIntLimbs, b \in VarIntLimbs, c \in VarIntLimbs,
                                d \in VarIntLow}

FeeRates == {U64(1), U64(10), U64(1000), <<0, 1, 0, 0>>, <<HalfLimb, 0, 0, 0>>, MaxUint64}

NumIdle == [stage |-> "idle", op |-> "none", n |-> WZero(4), inputCount |-> 0,
            outputCount |-> 0, size |-> 0, out |-> <<>>]

InitVarInt ==
    \E n \in VarIntArgs : num = [NumIdle EXCEPT !.stage = "input", !.op = "writeVarInt", !.n = n]

InitFee ==
    \E i \in 0..MaxCount, o \in 0..MaxCount, r \in FeeRates :
        num = [NumIdle EXCEPT !.stage = "input", !.op = "CalculateFee", !.n = r,
                              !.inputCount = i, !.outputCount = o]

CallWriteVarInt ==
    /\ num.stage = "input" /\ num.op = "writeVarInt"
    /\ num' = [num EXCEPT !.stage = "done", !.out = writeVarInt(num.n)]
    /\ UNCHANGED <<reg, bus, rpc, p2a, msg, enc, sel, heap, tb, txs, ret, wallets, derived, log>>

CallCalculateFee ==
    /\ num.stage = "input" /\ num.op = "CalculateFee"
    /\ num' = [num EXCEPT !.stage = "done",
                          !.size = EstimateTransactionSize(num.inputCount, num.outputCount),
                          !.out = CalculateFee(num.inputCount, num.outputCount, num.n)]
    /\ UNCHANGED <<reg, bus, rpc, p2a, msg, enc, sel, heap, tb, txs, ret, wallets, derived, log>>

----------------------------------------------------------------------------
\* Bitcoin RPC client (package rpc). The server and the network are the
\* environment: each HTTP request gets one of the answers below.

\* net/url, for URLs written with letters, digits, the characters
\* : / . - + ? # and control characters (no escapes, user names or IPv6
\* literals; any character outside printable ASCII is a control character).  A URL is a sequence of characters.

LowerLetters == <<"a", "b", "c", "d", "e", "f", "g", "h", "i", "j", "k", "l", "m",
                  "n", "o", "p", "q", "r", "s", "t", "u", "v", "w", "x", "y", "z">>
UpperLetters == <<"A", "B", "C", "D", "E", "F", "G", "H", "I", "J", "K", "L", "M",
                  "N", "O", "P", "Q", "R", "S", "T", "U", "V", "W", "X", "Y", "Z">>

IsLetter(c) == \E i \in 1..Len(LowerLetters) : c = LowerLetters[i] \/ c = UpperLetters[i]

ToLower(t) ==
    [i \in 1..Len(t) |->
        IF \E k \in 1..Len(UpperLetters) : UpperLetters[k] = t[i]
        THEN LowerLetters[CHOOSE k \in 1..Len(UpperLetters) : UpperLetters[k] = t[i]]
        ELSE t[i]]

\* stringContainsCTLByte looks for a byte below 0x20 or the byte 0x7f
IsCTLByte(c) == \A i \in 1..Len(AsciiPrintable) : AsciiPrintable[i] # c

\* strings.Index and strings.LastIndex of one character, 0 when it is absent
IndexOf(t, c) ==
    IF \E i \in 1..Len(t) : t[i] = c
    THEN CHOOSE i \in 1..Len(t) : t[i] = c /\ \A k \in 1..(i - 1) : t[k] # c
    ELSE 0

LastIndexOf(t, c) ==
    IF \E i \in 1..Len(t) : t[i] = c
    THEN CHOOSE i \in 1..Len(t) : t[i] = c /\ \A k \in (i + 1)..Len(t) : t[k] # c
    ELSE 0

\* the part of t before the first c (strings.Cut)
CutBefore(t, c) == IF IndexOf(t, c) = 0 THEN t ELSE SubSeq(t, 1, IndexOf(t, c) - 1)

\* getScheme: the scheme and what follows its colon
RECURSIVE getSchemeFrom(_, _)
getSchemeFrom(rawURL, i) ==
    IF i > Len(rawURL) THEN [scheme |-> <<>>, path |-> rawURL, err |-> "nil"]
    ELSE IF IsLetter(rawURL[i]) THEN getSchemeFrom(rawURL, i + 1)
    ELSE IF IsDigit(rawURL[i]) \/ rawURL[i] \in {"+", "-", "."}
    THEN (IF i = 1 THEN [scheme |-> <<>>, path |-> rawURL, err |-> "nil"]
          ELSE getSchemeFrom(rawURL, i + 1))
    ELSE IF rawURL[i] = ":"
    THEN (IF i = 1 THEN [scheme |-> <<>>, path |-> <<>>, err |-> "missing protocol scheme"]
          ELSE [scheme |-> SubSeq(rawURL, 1, i - 1),
                path |-> SubSeq(rawURL, i + 1, Len(rawURL)), err |-> "nil"])
    ELSE [scheme |-> <<>>, path |-> rawURL, err |-> "nil"]

getScheme(rawURL) == getSchemeFrom(rawURL, 1)

\* validOptionalPort: empty, or a colon followed by digits only
validOptionalPort(port) ==
    port = <<>> \/ (port[1] = ":" /\ \A i \in 2..Len(port) : IsDigit(port[i]))

\* parseHost: the port, if any, is checked
parseHost(host) ==
    IF LastIndexOf(host, ":") # 0
       /\ ~validOptionalPort(SubSeq(host, LastIndexOf(host, ":"), Len(host)))
    THEN [host |-> <<>>, err |-> "invalid port after host"]
    ELSE [host |-> host, err |-> "nil"]

NoURL(e) == [Scheme |-> <<>>, Host |-> <<>>, err |-> e]

\* url.Parse: the fragment is cut off, then control characters, the scheme,
\* the query, the first path segment and the authority are looked at
urlParse(rawURL) ==
    LET u == CutBefore(rawURL, "#")
        s == getScheme(u)
        rest == CutBefore(s.path, "?")
        authority == CutBefore(SubSeq(rest, 3, Len(rest)), "/")
        h == parseHost(authority)
    IN IF \E i \in 1..Len(u) : IsCTLByte(u[i])
       THEN NoURL("net/url: invalid control character in URL")
       ELSE IF s.err # "nil" THEN NoURL(s.err)
       ELSE IF ~HasPrefix(rest, <<"/">>) /\ s.scheme # <<>>
       THEN [Scheme |-> ToLower(s.scheme), Host |-> <<>>, err |-> "nil"]
       ELSE IF ~HasPrefix(rest, <<"/">>) /\ IndexOf(CutBefore(rest, "/"), ":") # 0
       THEN NoURL("first path segment in URL cannot contain colon")
       ELSE IF (s.scheme # <<>> \/ ~HasPrefix(rest, <<"/", "/", "/">>))
               /\ HasPrefix(rest, <<"/", "/">>)
       THEN (IF h.err # "nil" THEN NoURL(h.err)
             ELSE [Scheme |-> ToLower(s.scheme), Host |-> h.host, err |-> "nil"])
       ELSE [Scheme |-> ToLower(s.scheme), Host |-> <<>>, err |-> "nil"]

NoClient == [url |-> <<>>, maxRetries |-> 0, retryDelay |-> 0]

\* NewClient creates a new Bitcoin RPC client (retryDelay in seconds)
NewClient(rpcURL) ==
    IF rpcURL = <<>> THEN [client |-> NoClient, err |-> "rpc url cannot be empty"]
    ELSE Bind(urlParse(rpcURL), LAMBDA parsedURL :
       IF parsedURL.err # "nil" THEN [client |-> NoClient, err |-> "invalid rpc url"]
       ELSE IF parsedURL.Scheme = <<>>
       THEN [client |-> NoClient, err |-> "invalid rpc url: missing scheme"]
       ELSE [client |-> [url |-> rpcURL, maxRetries |-> 3, retryDelay |-> 1],
             err |-> "nil"])

\* removeEmptyPort strips the empty port in ":" and "host:"
hasPort(host) == LastIndexOf(host, ":") > LastIndexOf(host, "]")

removeEmptyPort(host) == IF hasPort(host) THEN TrimSuffix(host, <<":">>) ELSE host

\* http.NewRequestWithContext parses the URL and removes an empty port;
\* http.Client.Do sends the request only to an http or https URL with a host
CanSend(rawURL) ==
    Bind(urlParse(rawURL), LAMBDA u :
        /\ u.err = "nil"
        /\ u.Scheme \in {<<"h", "t", "t", "p">>, <<"h", "t", "t", "p", "s">>}
        /\ removeEmptyPort(u.Host) # <<>>)

\* what an HTTP request can meet: no connection, a connection that breaks
\* while the body is read, a status other than 200 (with or without a
\* JSON-RPC body), and 200 with a body that is not JSON, that holds an error
\* object, or that holds a result
ServerAnswers ==
    {[sent |-> FALSE, status |-> 0, body |-> "none"],
     [sent |-> TRUE, status |-> 200, body |-> "unreadable"],
     [sent |-> TRUE, status |-> 503, body |-> "empty"],
     [sent |-> TRUE, status |-> 500, body |-> "error"],
     [sent |-> TRUE, status |-> 200, body |-> "garbage"],
     [sent |-> TRUE, status |-> 200, body |-> "error"],
     [sent |-> TRUE, status |-> 200, body |-> "result"]}

RPCErrorValue == "RPC error -32601: Method not found"

\* doRequest: marshal, create the request, POST, read, check the status,
\* parse, check the error object; requests is the number of calls of
\* httpClient.Do it made
doRequest(c, marshals, answer) ==
    IF ~marshals
    THEN [result |-> "nil", err |-> "failed to marshal request", isRPCError |-> FALSE,
          requests |-> 0]
    ELSE IF urlParse(c.url).err # "nil"
    THEN [result |-> "nil", err |-> "failed to create request", isRPCError |-> FALSE,
          requests |-> 0]
    ELSE IF ~answer.sent
    THEN [result |-> "nil", err |-> "http request failed", isRPCError |-> FALSE,
          requests |-> 1]
    ELSE IF answer.body = "unreadable"
    THEN [result |-> "nil", err |-> "failed to read response", isRPCError |-> FALSE,
          requests |-> 1]
    ELSE IF answer.status # 200
    THEN [result |-> "nil", err |-> "http error", isRPCError |-> FALSE, requests |-> 1]
    ELSE IF answer.body = "garbage"
    THEN [result |-> "nil", err |-> "failed to parse response", isRPCError |-> FALSE,
          requests |-> 1]
    ELSE IF answer.body = "error"
    THEN [result |-> "nil", err |-> RPCErrorValue, isRPCError |-> TRUE, requests |-> 1]
    ELSE [result |-> "success", err |-> "nil", isRPCError |-> FALSE, requests |-> 1]

\* one pass of the loop of CallRPC retrying whatever the error is
CallRPCAttempt_RetryAll(c, attempt, marshals, answer) ==
    LET slept == IF attempt > 0 /\ c.retryDelay > 0 THEN 1 ELSE 0
    IN Bind(doRequest(c, marshals, answer), LAMBDA r :
       IF r.err = "nil"
       THEN [returned |-> TRUE, result |-> r.result, err |-> "nil", wrapped |-> "nil",
             attempt |-> attempt, slept |-> slept, requests |-> r.requests]
       ELSE IF attempt + 1 <= c.maxRetries
       THEN [returned |-> FALSE, result |-> "nil", err |-> "nil", wrapped |-> r.err,
             attempt |-> attempt + 1, slept |-> slept, requests |-> r.requests]
       ELSE [returned |-> TRUE, result |-> "nil", err |-> "max retries exceeded",
             wrapped |-> r.err, attempt |-> attempt + 1, slept |-> slept,
             requests |-> r.requests])

\* one pass of the loop of CallRPC, for attempt <= c.maxRetries: the sleep,
\* doRequest, and the return or the next value of attempt; when the loop
\* ends the call returns "max retries exceeded" wrapping lastErr
CallRPCAttempt(c, attempt, marshals, answer) ==
    LET slept == IF attempt > 0 /\ c.retryDelay > 0 THEN 1 ELSE 0
    IN Bind(doRequest(c, marshals, answer), LAMBDA r :
       IF r.err = "nil"
       THEN [returned |-> TRUE, result |-> r.result, err |-> "nil", wrapped |-> "nil",
             attempt |-> attempt, slept |-> slept, requests |-> r.requests]
       ELSE IF r.isRPCError
       THEN [returned |-> TRUE, result |-> "nil", err |-> r.err, wrapped |-> "nil",
             attempt |-> attempt, slept |-> slept, requests |-> r.requests]
       ELSE IF attempt + 1 <= c.maxRetries
       THEN [returned |-> FALSE, result |-> "nil", err |-> "nil", wrapped |-> r.err,
             attempt |-> attempt + 1, slept |-> slept, requests |-> r.requests]
       ELSE [returned |-> TRUE, result |-> "nil", err |-> "max retries exceeded",
             wrapped |-> r.err, attempt |-> attempt + 1, slept |-> slept,
             requests |-> r.requests])

\* Scenario SpecRPC: NewClient on a URL; the client it returns, or that
\* client with the retry settings the tests give it, or a Client literal
\* with a URL that does not parse; and one CallRPC.

RpcURLs ==
    {<<>>,
     <<"h", "t", "t", "p", ":", "/", "/", "l", "o", "c", "a", "l", "h", "o", "s", "t", ":", "8", "3", "3", "2">>,
     <<":", "/", "/", "i", "n", "v", "a", "l", "i", "d">>,
     <<"l", "o", "c", "a", "l", "h", "o", "s", "t">>,
     <<"l", "o", "c", "a", "l", "h", "o", "s", "t", ":", "8", "3", "3", "2">>,
     <<"h", "t", "t", "p", ":", "/", "/", "l", "o", "c", "a", "l", "h", "o", "s", "t", ":", "p", "o", "r", "t">>,
     <<"8", "3", "3", "2", ":", "x">>,
     <<"h", "t", "t", "p", ":", "/", "/", ":">>,
     <<"h", "t", "t", "p", ":", "/", "/", "a", "\f", "b">>}

LiteralClient == [url |-> <<":", "/", "/", "i", "n", "v", "a", "l", "i", "d">>, maxRetries |-> 2, retryDelay |-> 0]

RpcIdle ==
    [stage |-> "idle", rpcURL |-> <<>>, client |-> NoClient, fromNewClient |-> FALSE,
     marshals |-> TRUE, attempt |-> 0, requests |-> 0, sleeps |-> 0, answers |-> <<>>,
     result |-> "nil", err |-> "nil", wrapped |-> "nil"]

InitRPC ==
    \E rpcURL \in RpcURLs, kind \in {"new", "tuned", "literal"} :
        Bind(NewClient(rpcURL), LAMBDA r :
           IF kind = "literal"
           THEN rpc = [RpcIdle EXCEPT !.stage = "ready", !.client = LiteralClient]
           ELSE IF r.err # "nil"
           THEN rpc = [RpcIdle EXCEPT !.stage = "failed", !.rpcURL = rpcURL, !.err = r.err]
           ELSE rpc = [RpcIdle EXCEPT
                          !.stage = "ready",
                          !.rpcURL = rpcURL,
                          !.client = IF kind = "tuned"
                                     THEN [r.client EXCEPT !.maxRetries = 2, !.retryDelay = 0]
                                     ELSE r.client,
                          !.fromNewClient = kind = "new"])

\* CallRPC up to the loop
BeginCallRPC ==
    /\ rpc.stage = "ready"
    /\ \E marshals \in BOOLEAN :
           rpc' = [rpc EXCEPT !.stage = "loop", !.marshals = marshals, !.attempt = 0]
    /\ UNCHANGED <<reg, bus, num, p2a, msg, enc, sel, heap, tb, txs, ret, wallets, derived, log>>

\* one pass of the loop
AttemptRPC ==
    /\ rpc.stage = "loop"
    /\ rpc.attempt <= rpc.client.maxRetries
    /\ \E answer \in ServerAnswers :
           /\ answer.sent => CanSend(rpc.client.url)
           /\ Bind(CallRPCAttempt(rpc.client, rpc.attempt, rpc.marshals, answer), LAMBDA a :
                 rpc' = [rpc EXCEPT
                            !.stage = IF a.returned THEN "returned" ELSE "loop",
                            !.attempt = a.attempt,
                            !.requests = @ + a.requests,
                            !.sleeps = @ + a.slept,
                            !.answers = Append(@, IF a.requests = 0
                                                  THEN [sent |-> FALSE, status |-> 0,
                                                        body |-> "unsent"]
                                                  ELSE answer),
                            !.result = a.result, !.err = a.err, !.wrapped = a.wrapped])
    /\ UNCHANGED <<reg, bus, num, p2a, msg, enc, sel, heap, tb, txs, ret, wallets, derived, log>>

----------------------------------------------------------------------------
\* In-memory event bus (internal/infrastructure/eventbus). Subscribe and
\* Unsubscribe hold bus.mu for their whole body, and Publish reads the map
\* under the read lock: each of these critical sections is one step. After
\* RUnlock Publish goes on without the lock: its test of the slice and each
\* go statement of its loop are steps of their own, so other calls come in
\* between. The handlers run in goroutines of their own, one step to start
\* and one to return.

EventTypes == {"A", "B"}

\* an event is nil or has a type; a handler is nil or a function that
\* returns nil or an error
NilEvent == "nil"
Events == {NilEvent} \cup EventTypes
HandlerKinds == {"nil", "ok", "fails"}

\* NewInMemoryEventBus: the map of subscribers, a slice of handlers per type
NewInMemoryEventBus == [t \in EventTypes |-> <<>>]

\* Subscribe subscribes to events of a specific type
Subscribe(subscribers, eventType, handlerKind, handler) ==
    IF eventType = "" THEN [subscribers |-> subscribers, err |-> "event type cannot be empty"]
    ELSE IF handlerKind = "nil"
    THEN [subscribers |-> subscribers, err |-> "handler cannot be nil"]
    ELSE [subscribers |-> [subscribers EXCEPT ![eventType] = Append(@, handler)],
          err |-> "nil"]

\* Unsubscribe unsubscribes from events of a specific type: delete(map, key)
Unsubscribe(subscribers, eventType) ==
    IF eventType \in DOMAIN subscribers
    THEN [subscribers EXCEPT ![eventType] = <<>>]
    ELSE subscribers

\* Stop stops the event bus: bus.subscribers = make(map[string][]ports.EventHandler)
Stop(subscribers) == NewInMemoryEventBus

\* Publish, the read under bus.mu.RLock: handlers, exists := bus.subscribers[eventType]
PublishHandlers(subscribers, eventType) ==
    IF eventType \in DOMAIN subscribers THEN subscribers[eventType] ELSE <<>>

\* Publish, after wg.Wait, never reporting the errors
PublishResult_Silent(errors) == "nil"

\* Publish, after wg.Wait: the errors drained from errChan
PublishResult(errors) ==
    IF errors > 0 THEN "failed to publish event to handler(s)" ELSE "nil"

\* Scenario SpecBus: goroutines call Subscribe, Unsubscribe, Publish, Start
\* and Stop on one bus, at most MaxBusCalls calls in all.

MaxBusCalls == 4

BusIdle ==
    [subscribers |-> NewInMemoryEventBus,
     handlers |-> <<>>,     \* by handler: its event type and what it returns
     pubs |-> <<>>,         \* the Publish calls, in the order they began
     calls |-> 0,
     last |-> "nil",        \* what the last Subscribe returned
     live |-> {},           \* history: handlers subscribed and not unsubscribed
     removed |-> {},        \* history: handlers whose type was unsubscribed
     late |-> {}]           \* history: handlers started after that

InitBus == bus = BusIdle

CallSubscribe ==
    /\ bus.calls < MaxBusCalls
    /\ \E eventType \in EventTypes \cup {""}, kind \in HandlerKinds :
           LET h == Len(bus.handlers) + 1
               r == Subscribe(bus.subscribers, eventType, kind, h)
           IN bus' = IF r.err = "nil"
                     THEN [bus EXCEPT !.subscribers = r.subscribers,
                                      !.handlers = Append(@, [type |-> eventType,
                                                              kind |-> kind]),
                                      !.calls = @ + 1, !.last = r.err,
                                      !.live = @ \cup {h}]
                     ELSE [bus EXCEPT !.calls = @ + 1, !.last = r.err]
    /\ UNCHANGED <<reg, rpc, num, p2a, msg, enc, sel, heap, tb, txs, ret, wallets, derived, log>>

CallUnsubscribe ==
    /\ bus.calls < MaxBusCalls
    /\ \E eventType \in EventTypes :
           LET gone == {h \in bus.live : bus.handlers[h].type = eventType}
           IN bus' = [bus EXCEPT !.subscribers = Unsubscribe(@, eventType),
                                 !.calls = @ + 1,
                                 !.live = @ \ gone,
                                 !.removed = @ \cup gone]
    /\ UNCHANGED <<reg, rpc, num, p2a, msg, enc, sel, heap, tb, txs, ret, wallets, derived, log>>

\* Start only writes to the log
CallStart ==
    /\ bus.calls < MaxBusCalls
    /\ bus' = [bus EXCEPT !.calls = @ + 1, !.last = "started"]
    /\ UNCHANGED <<reg, rpc, num, p2a, msg, enc, sel, heap, tb, txs, ret, wallets, derived, log>>

\* Stop holds bus.mu for its whole body: every type loses its handlers at once
CallStop ==
    /\ bus.calls < MaxBusCalls
    /\ bus' = [bus EXCEPT !.subscribers = Stop(@), !.calls = @ + 1, !.last = "stopped",
                          !.live = {}]
    /\ UNCHANGED <<reg, rpc, num, p2a, msg, enc, sel, heap, tb, txs, ret, wallets, derived, log>>

\* Publish up to the read lock: the nil check and getEventType
BeginPublish ==
    /\ bus.calls < MaxBusCalls
    /\ \E event \in Events :
           bus' = [bus EXCEPT
                      !.calls = @ + 1,
                      !.pubs = Append(@, [event |-> event,
                                          pc |-> IF event = NilEvent THEN "done" ELSE "read",
                                          handlers |-> <<>>, runs |-> <<>>,
                                          subscribed |-> {},
                                          err |-> IF event = NilEvent
                                                  THEN "event cannot be nil" ELSE "nil"])]
    /\ UNCHANGED <<reg, rpc, num, p2a, msg, enc, sel, heap, tb, txs, ret, wallets, derived, log>>

\* Publish, lines 34 to 36: RLock, the read of the map, RUnlock. From here on
\* Publish holds no lock and works on the slice it read
PublishRead ==
    \E p \in 1..Len(bus.pubs) :
        /\ bus.pubs[p].pc = "read"
        /\ bus' = [bus EXCEPT
                      !.pubs[p] = [@ EXCEPT
                          !.handlers = PublishHandlers(bus.subscribers, bus.pubs[p].event),
                          !.subscribed = {h \in bus.live :
                                             bus.handlers[h].type = bus.pubs[p].event},
                          !.pc = "unlocked"]]
        /\ UNCHANGED <<reg, rpc, num, p2a, msg, enc, sel, heap, tb, txs, ret, wallets, derived, log>>

\* Publish, lines 38 to 51: the return when the slice is empty, or else the
\* WaitGroup and errChan, before the first go statement
PublishCheck ==
    \E p \in 1..Len(bus.pubs) :
        /\ bus.pubs[p].pc = "unlocked"
        /\ bus' = [bus EXCEPT
                      !.pubs[p].pc = IF Len(bus.pubs[p].handlers) = 0 THEN "done" ELSE "go"]
        /\ UNCHANGED <<reg, rpc, num, p2a, msg, enc, sel, heap, tb, txs, ret, wallets, derived, log>>

\* Publish, lines 53 to 61, one turn of the loop: wg.Add(1) and the go
\* statement for the next handler of the slice; after the last one Publish
\* is at wg.Wait
PublishGo ==
    \E p \in 1..Len(bus.pubs) :
        /\ bus.pubs[p].pc = "go"
        /\ bus' = [bus EXCEPT
                      !.pubs[p].runs = Append(@, "created"),
                      !.pubs[p].pc = IF Len(bus.pubs[p].runs) + 1 = Len(bus.pubs[p].handlers)
                                     THEN "wait" ELSE "go"]
        /\ UNCHANGED <<reg, rpc, num, p2a, msg, enc, sel, heap, tb, txs, ret, wallets, derived, log>>

\* a handler goroutine calls its handler
HandlerStart ==
    \E p \in 1..Len(bus.pubs) : \E i \in 1..Len(bus.pubs[p].runs) :
        /\ bus.pubs[p].runs[i] = "created"
        /\ bus' = [bus EXCEPT
                      !.pubs[p].runs[i] = "running",
                      !.late = IF bus.pubs[p].handlers[i] \in bus.removed
                               THEN @ \cup {bus.pubs[p].handlers[i]} ELSE @]
        /\ UNCHANGED <<reg, rpc, num, p2a, msg, enc, sel, heap, tb, txs, ret, wallets, derived, log>>

\* the handler returns; its error, if any, goes to errChan; wg.Done
HandlerReturn ==
    \E p \in 1..Len(bus.pubs) : \E i \in 1..Len(bus.pubs[p].runs) :
        /\ bus.pubs[p].runs[i] = "running"
        /\ bus' = [bus EXCEPT
                      !.pubs[p].runs[i] =
                          IF bus.handlers[bus.pubs[p].handlers[i]].kind = "fails"
                          THEN "error" ELSE "returned"]
        /\ UNCHANGED <<reg, rpc, num, p2a, msg, enc, sel, heap, tb, txs, ret, wallets, derived, log>>

\* Publish from the return of wg.Wait to its own return
PublishReturn ==
    \E p \in 1..Len(bus.pubs) :
        /\ bus.pubs[p].pc = "wait"
        /\ \A i \in 1..Len(bus.pubs[p].runs) : bus.pubs[p].runs[i] \in {"returned", "error"}
        /\ LET errors == Cardinality({i \in 1..Len(bus.pubs[p].runs) :
                                        bus.pubs[p].runs[i] = "error"})
           IN bus' = [bus EXCEPT !.pubs[p].pc = "done",
                                 !.pubs[p].err = PublishResult(errors)]
        /\ UNCHANGED <<reg, rpc, num, p2a, msg, enc, sel, heap, tb, txs, ret, wallets, derived, log>>

----------------------------------------------------------------------------
\* Chain registry (package registry): a map from chain ID to adapter behind a
\* sync.RWMutex.  A method body between Lock and the deferred Unlock is one
\* step; a Register call that passed its argument checks and has not got the
\* lock yet is a call in flight.

ChainIDs == {"", "btc", "eth"}

\* "nil" is the nil interface value; NoAdapter says the map has no entry
Adapters == {"nil", "a1", "a2"}

NoAdapter == "none"

\* NewChainRegistry: make(map[string]ports.ChainAdapter)
NewChainRegistry == [id \in ChainIDs |-> NoAdapter]

\* Register without the check of the map: the adapter is bound in any case
Register_Overwrite(adapters, chainID, adapter) ==
    IF chainID = ""
    THEN [adapters |-> adapters, err |-> "chain ID cannot be empty", logged |-> FALSE]
    ELSE IF adapter = "nil"
    THEN [adapters |-> adapters, err |-> "adapter cannot be nil", logged |-> FALSE]
    ELSE [adapters |-> [adapters EXCEPT ![chainID] = adapter], err |-> "nil",
          logged |-> TRUE]

\* Register(chainID, adapter) run on the map `adapters`: the map afterwards,
\* the error, and whether logger.Info was called
Register(adapters, chainID, adapter) ==
    IF chainID = ""
    THEN [adapters |-> adapters, err |-> "chain ID cannot be empty", logged |-> FALSE]
    ELSE IF adapter = "nil"
    THEN [adapters |-> adapters, err |-> "adapter cannot be nil", logged |-> FALSE]
    ELSE IF adapters[chainID] # NoAdapter
    THEN [adapters |-> adapters, err |-> "chain adapter already registered",
          logged |-> FALSE]
    ELSE [adapters |-> [adapters EXCEPT ![chainID] = adapter], err |-> "nil",
          logged |-> TRUE]

Unregister(adapters, chainID) ==
    IF adapters[chainID] = NoAdapter
    THEN [adapters |-> adapters, err |-> "chain adapter not found", logged |-> FALSE]
    ELSE [adapters |-> [adapters EXCEPT ![chainID] = NoAdapter], err |-> "nil",
          logged |-> TRUE]

Get(adapters, chainID) ==
    IF adapters[chainID] = NoAdapter
    THEN [adapter |-> "nil", err |-> "chain adapter not found"]
    ELSE [adapter |-> adapters[chainID], err |-> "nil"]

Has(adapters, chainID) == adapters[chainID] # NoAdapter

\* List: one append per key that `range` yields; Go fixes no order of
\* iteration over a map, so every order of the keys is a possible result
List(adapters) ==
    LET keys == {id \in ChainIDs : adapters[id] # NoAdapter}
        n == Cardinality(keys)
    IN {chains \in [1..n -> keys] :
            \A i, j \in 1..n : chains[i] = chains[j] => i = j}

\* calls of Register and Unregister in one run
MaxRegCalls == 3

NoQuery == [op |-> "none", chainID |-> "", adapter |-> "nil", err |-> "nil",
            has |-> FALSE, chains |-> <<>>]

RegIdle == [adapters |-> NewChainRegistry, calls |-> <<>>, unregs |-> 0,
            logged |-> <<>>, last |-> NoQuery]

InitRegistry == reg = RegIdle

\* a goroutine calls Register: the two checks of the arguments, which need no
\* lock; the call returns there or goes on to r.mu.Lock()
BeginRegister ==
    \E chainID \in ChainIDs, adapter \in Adapters :
        /\ Len(reg.calls) + reg.unregs < MaxRegCalls
        /\ LET early == chainID = "" \/ adapter = "nil"
               r == Register(reg.adapters, chainID, adapter)
           IN reg' = [reg EXCEPT !.calls = Append(@,
                         [chainID |-> chainID, adapter |-> adapter,
                          pc |-> IF early THEN "done" ELSE "lock",
                          err |-> IF early THEN r.err ELSE "nil",
                          was |-> NoAdapter, now |-> NoAdapter])]
        /\ UNCHANGED <<enc, sel, heap, tb, txs, ret, wallets, derived, log, p2a, msg, num, rpc, bus>>

\* Register from the return of r.mu.Lock() to the deferred Unlock
RegisterLocked ==
    \E c \in 1..Len(reg.calls) :
        /\ reg.calls[c].pc = "lock"
        /\ LET call == reg.calls[c]
               r == Register(reg.adapters, call.chainID, call.adapter)
           IN reg' = [reg EXCEPT
                         !.adapters = r.adapters,
                         !.logged = IF r.logged
                                    THEN Append(@, <<"chain adapter registered", call.chainID>>)
                                    ELSE @,
                         !.calls[c].pc = "done",
                         !.calls[c].err = r.err,
                         !.calls[c].was = reg.adapters[call.chainID],
                         !.calls[c].now = r.adapters[call.chainID]]
        /\ UNCHANGED <<enc, sel, heap, tb, txs, ret, wallets, derived, log, p2a, msg, num, rpc, bus>>

CallUnregister ==
    \E chainID \in ChainIDs :
        /\ Len(reg.calls) + reg.unregs < MaxRegCalls
        /\ LET r == Unregister(reg.adapters, chainID)
           IN reg' = [reg EXCEPT
                         !.adapters = r.adapters,
                         !.unregs = @ + 1,
                         !.logged = IF r.logged
                                    THEN Append(@, <<"chain adapter unregistered", chainID>>)
                                    ELSE @,
                         !.last = [NoQuery EXCEPT !.op = "Unregister", !.chainID = chainID,
                                                  !.err = r.err]]
        /\ UNCHANGED <<enc, sel, heap, tb, txs, ret, wallets, derived, log, p2a, msg, num, rpc, bus>>

CallGet ==
    \E chainID \in ChainIDs :
        /\ LET r == Get(reg.adapters, chainID)
           IN reg' = [reg EXCEPT !.last = [NoQuery EXCEPT !.op = "Get", !.chainID = chainID,
                                              !.adapter = r.adapter, !.err = r.err]]
        /\ UNCHANGED <<enc, sel, heap, tb, txs, ret, wallets, derived, log, p2a, msg, num, rpc, bus>>

CallHas ==
    \E chainID \in ChainIDs :
        /\ reg' = [reg EXCEPT !.last = [NoQuery EXCEPT !.op = "Has", !.chainID = chainID,
                                           !.has = Has(reg.adapters, chainID)]]
        /\ UNCHANGED <<enc, sel, heap, tb, txs, ret, wallets, derived, log, p2a, msg, num, rpc, bus>>

CallList ==
    \E chains \in List(reg.adapters) :
        /\ reg' = [reg EXCEPT !.last = [NoQuery EXCEPT !.op = "List", !.chains = chains]]
        /\ UNCHANGED <<enc, sel, heap, tb, txs, ret, wallets, derived, log, p2a, msg, num, rpc, bus>>

----------------------------------------------------------------------------
\* A holder of a *Transaction signs it by assigning to the exported field:
\* tx.Inputs[idx].ScriptSig = scriptSig.  The assignment writes the element
\* of the array the slice tx.Inputs points to.

AssignScriptSig(h, tx, idx, scriptSig) ==
    [h EXCEPT !.inputs[tx.Inputs.ptr][idx].ScriptSig = scriptSig]

\* scenario SpecAlias: the builder of scenario Spec, and holders of the
\* transactions it returned who attach signature scripts to their inputs
AliasInputs == 2
AliasOutputs == 2
AliasBuilds == 2

AliasAddInput == AddInputStep(BuilderInputArgs, AliasInputs)
AliasAddOutput == AddOutputStep(AliasOutputs)
AliasSetLocktime == SetLocktimeStep
AliasBuild == BuildStep(AliasBuilds)

SetScriptSig ==
    \E i \in 1..Len(txs) : \E idx \in 1..txs[i].Inputs.len : \E scriptSig \in SigScripts :
        /\ heap' = AssignScriptSig(heap, txs[i], idx, scriptSig)
        /\ ret' = [NoRet EXCEPT !.op = "ScriptSig", !.tx = i, !.value = <<idx>>]
        /\ UNCHANGED <<reg, bus, rpc, num, p2a, msg, tb, txs, log, enc, sel, wallets, derived>>

----------------------------------------------------------------------------
\* Specifications. Every scenario leaves the state of the others idle.

EncIsIdle == enc = EncIdle
SelIsIdle == sel = SelIdle
TxIsIdle == InitTx
WalletIsIdle == InitWallet
P2aIsIdle == p2a = P2aIdle
MsgIsIdle == msg = MsgIdle
NumIsIdle == num = NumIdle
RpcIsIdle == rpc = RpcIdle
BusIsIdle == bus = BusIdle
RegIsIdle == reg = RegIdle
OthersIdle == P2aIsIdle /\ MsgIsIdle /\ NumIsIdle /\ RpcIsIdle /\ BusIsIdle /\ RegIsIdle

Init == InitTx /\ EncIsIdle /\ SelIsIdle /\ WalletIsIdle /\ OthersIdle

Next ==
    \/ CallAddInput
    \/ CallAddOutput
    \/ CallSetLocktime
    \/ CallBuild

Spec == Init /\ [][Next]_vars

NextCodec ==
    \/ CodecAddInput
    \/ CodecAddOutput
    \/ CodecSetLocktime
    \/ CodecBuild
    \/ CallSerialize
    \/ CallHash

SpecCodec == Init /\ [][NextCodec]_vars

InitSpecBase58 == InitBase58 /\ SelIsIdle /\ TxIsIdle /\ WalletIsIdle /\ OthersIdle

NextBase58 == Encode \/ Decode \/ ToScript

SpecBase58 == InitSpecBase58 /\ [][NextBase58]_vars

InitSpecCoin == InitCoin /\ EncIsIdle /\ TxIsIdle /\ WalletIsIdle /\ OthersIdle

NextCoin == Select

SpecCoin == InitSpecCoin /\ [][NextCoin]_vars

InitSpecWallet == InitWallet /\ EncIsIdle /\ SelIsIdle /\ TxIsIdle /\ OthersIdle

NextWallet == CallNewHDWallet \/ CallDeriveAccount \/ CallDeriveAddress

SpecWallet == InitSpecWallet /\ [][NextWallet]_vars

InitSpecPath == InitPath /\ EncIsIdle /\ SelIsIdle /\ TxIsIdle /\ OthersIdle

NextPath == CallDerivePath \/ CallValidatePath

SpecPath == InitSpecPath /\ [][NextPath]_vars

InitSpecAddress ==
    InitAddress /\ MsgIsIdle /\ EncIsIdle /\ SelIsIdle /\ TxIsIdle /\ WalletIsIdle /\ NumIsIdle /\ RpcIsIdle /\ BusIsIdle /\ RegIsIdle

NextAddress == CallPubKeyToAddress

SpecAddress == InitSpecAddress /\ [][NextAddress]_vars

InitSpecSign ==
    InitSign /\ P2aIsIdle /\ EncIsIdle /\ SelIsIdle /\ TxIsIdle /\ WalletIsIdle /\ NumIsIdle /\ RpcIsIdle /\ BusIsIdle /\ RegIsIdle

NextSign ==
    \/ CallAddTxIn
    \/ CallAddTxOut
    \/ CallSignP2PKH
    \/ CallAttachScriptSig

SpecSign == InitSpecSign /\ [][NextSign]_vars

InitSpecVarInt == InitVarInt /\ EncIsIdle /\ SelIsIdle /\ TxIsIdle /\ WalletIsIdle /\ P2aIsIdle /\ MsgIsIdle /\ RpcIsIdle /\ BusIsIdle /\ RegIsIdle

NextVarInt == CallWriteVarInt

SpecVarInt == InitSpecVarInt /\ [][NextVarInt]_vars

InitSpecFee == InitFee /\ EncIsIdle /\ SelIsIdle /\ TxIsIdle /\ WalletIsIdle /\ P2aIsIdle /\ MsgIsIdle /\ RpcIsIdle /\ BusIsIdle /\ RegIsIdle

NextFee == CallCalculateFee

SpecFee == InitSpecFee /\ [][NextFee]_vars

InitSpecRPC == InitRPC /\ EncIsIdle /\ SelIsIdle /\ TxIsIdle /\ WalletIsIdle /\ P2aIsIdle /\ MsgIsIdle /\ NumIsIdle /\ BusIsIdle /\ RegIsIdle

NextRPC == BeginCallRPC \/ AttemptRPC

SpecRPC == InitSpecRPC /\ [][NextRPC]_vars

InitSpecBus == InitBus /\ EncIsIdle /\ SelIsIdle /\ TxIsIdle /\ WalletIsIdle /\ P2aIsIdle /\ MsgIsIdle /\ NumIsIdle /\ RpcIsIdle /\ RegIsIdle

NextBus ==
    \/ CallStart
    \/ CallStop
    \/ CallSubscribe
    \/ CallUnsubscribe
    \/ BeginPublish
    \/ PublishRead
    \/ PublishCheck
    \/ PublishGo
    \/ HandlerStart
    \/ HandlerReturn
    \/ PublishReturn

SpecBus == InitSpecBus /\ [][NextBus]_vars

InitSpecRegistry == InitRegistry /\ EncIsIdle /\ SelIsIdle /\ TxIsIdle /\ WalletIsIdle /\ P2aIsIdle /\ MsgIsIdle /\ NumIsIdle /\ RpcIsIdle /\ BusIsIdle

NextRegistry ==
    \/ BeginRegister
    \/ RegisterLocked
    \/ CallUnregister
    \/ CallGet
    \/ CallHas
    \/ CallList

SpecRegistry == InitSpecRegistry /\ [][NextRegistry]_vars

NextAlias ==
    \/ AliasAddInput
    \/ AliasAddOutput
    \/ AliasSetLocktime
    \/ AliasBuild
    \/ SetScriptSig

SpecAlias == Init /\ [][NextAlias]_vars

----------------------------------------------------------------------------
\* Properties

\* the public key of m/44'/0'/0'/0/0 for the mnemonic of the tests and no
\* passphrase
TestPublicKey ==
    <<3, 170, 235, 82, 221, 116, 148, 195, 97, 4, 157, 230, 124, 198, 128, 232, 62,
      188, 187, 189, 190, 177, 54, 55, 217, 44, 216, 69, 247, 3, 8, 175, 94>>

\* C1: two wallets built independently by NewHDWallet from the same mnemonic
\* and passphrase hold, after the same DeriveAccount and DeriveAddress calls,
\* the same public key, private key and path string, whatever was built or
\* derived before, on either wallet, and in whatever order the calls ran.
C1_Determinism ==
    \A a \in WalletIds, b \in WalletIds :
        ( /\ wallets[a].built /\ wallets[b].built
          /\ wallets[a].mnemonic = wallets[b].mnemonic
          /\ wallets[a].passphrase = wallets[b].passphrase
          /\ wallets[a].addr.set /\ wallets[b].addr.set
          /\ wallets[a].acct.coinType = wallets[b].acct.coinType
          /\ wallets[a].acct.account = wallets[b].acct.account
          /\ wallets[a].acct.addressType = wallets[b].acct.addressType
          /\ wallets[a].addr.change = wallets[b].addr.change
          /\ wallets[a].addr.index = wallets[b].addr.index )
        => /\ wallets[a].addr.publicKey = wallets[b].addr.publicKey
           /\ wallets[a].addr.privateKey = wallets[b].addr.privateKey
           /\ wallets[a].addr.path = wallets[b].addr.path

\* C1 witness: TestDeterministicAddressGeneration, one wallet having derived
\* other accounts or addresses first and the other not: both hold the key of
\* m/44'/0'/0'/0/0.
C1_Witness ==
    /\ wallets[1].addr.set /\ wallets[2].addr.set
    /\ wallets[1].mnemonic = TestMnemonic /\ wallets[2].mnemonic = TestMnemonic
    /\ wallets[1].passphrase = <<>> /\ wallets[2].passphrase = <<>>
    /\ wallets[1].acct.coinType = U32(0) /\ wallets[2].acct.coinType = U32(0)
    /\ wallets[1].acct.addressType = AddressTypeP2PKH
    /\ wallets[2].acct.addressType = AddressTypeP2PKH
    /\ wallets[1].addr.change = U32(0) /\ wallets[2].addr.change = U32(0)
    /\ wallets[1].addr.index = U32(0) /\ wallets[2].addr.index = U32(0)
    /\ wallets[1].reused /\ ~wallets[2].reused
    /\ wallets[1].addr.publicKey = TestPublicKey
    /\ wallets[2].addr.publicKey = TestPublicKey

AtLeast(ms, target) == ms[1] > 0 \/ WLeq(target, ms[2])
Below(ms, target) == ms[1] = 0 /\ WLess(ms[2], target)

\* C2: for a non-empty list, a target > 0 and either algorithm: on success the
\* sum of the selected amounts is >= target and equals the returned total;
\* and when the sum of all amounts is < target the call fails with
\* insufficient funds, no UTXOs and total 0.
C2_SelectionTotals ==
    ( /\ sel.stage = "done"
      /\ sel.utxos # <<>>
      /\ sel.target # WZero(4)
      /\ sel.algorithm \in {AlgorithmFIFO, AlgorithmLargestFirst} )
    => /\ sel.result.err = "nil"
            => /\ AtLeast(MathSum(sel.result.selected), sel.target)
               /\ MathSum(sel.result.selected) = <<0, sel.result.total>>
       /\ Below(MathSum(sel.utxos), sel.target)
            => /\ sel.result.err = "insufficient funds"
               /\ sel.result.selected = <<>>
               /\ sel.result.total = WZero(4)

\* the outputs the builder was given, as transaction outputs
LoggedOutputs ==
    [i \in 1..Len(log.outputs) |->
        [Amount |-> log.outputs[i][2],
         ScriptPubKey |-> scriptPubKeyOf(log.outputs[i][1]).script]]

\* C3: Build fails with "at least one input" when there is no input (checked
\* first), with "at least one output" when there is no output, and returns no
\* transaction; otherwise it returns a transaction of version 2 whose inputs,
\* outputs and locktime are those given to the builder, in call order.
C3_Build ==
    ret.op = "Build"
    => /\ log.inputs = <<>>
            => /\ ret.err = "transaction must have at least one input"
               /\ ret.tx = 0
       /\ (log.inputs # <<>> /\ log.outputs = <<>>)
            => /\ ret.err = "transaction must have at least one output"
               /\ ret.tx = 0
       /\ (log.inputs # <<>> /\ log.outputs # <<>>)
            => /\ ret.err = "nil"
               /\ ret.tx = Len(txs)
               /\ TxValue(heap, txs[ret.tx])
                      = [Version |-> U32(2), Inputs |-> log.inputs,
                         Outputs |-> LoggedOutputs, Locktime |-> log.locktime]

\* C3 witness: a successful Build of two different inputs, two different
\* outputs and a changed locktime.
C3_Witness ==
    /\ ret.op = "Build" /\ ret.err = "nil"
    /\ Len(log.inputs) >= 2 /\ log.inputs[1] # log.inputs[2]
    /\ Len(log.outputs) >= 2 /\ LoggedOutputs[1] # LoggedOutputs[2]
    /\ log.locktime # U32(0)

\* C4: no later AddInput, AddOutput, SetLocktime or Build on the builder
\* changes the version, inputs, outputs or locktime of a transaction that
\* Build has returned.
C4_Immutable ==
    [][\A i \in 1..Len(txs) :
          /\ i <= Len(txs')
          /\ TxValue(heap', txs'[i]) = TxValue(heap, txs[i])]_vars

\* C4 witness: after the first Build the builder has appended an input in
\* place to the array the transaction shares, added an output, changed its
\* locktime and built again, and its last call is an AddOutput that failed.
C4_Witness ==
    /\ Len(txs) = 2
    /\ tb.inputs.ptr = txs[1].Inputs.ptr
    /\ tb.inputs.len > txs[1].Inputs.len
    /\ tb.outputs.len > txs[1].Outputs.len
    /\ txs[2].Outputs.len > txs[1].Outputs.len
    /\ tb.locktime # txs[1].Locktime
    /\ ret.op = "AddOutput" /\ ret.err = "invalid address"

\* C5: decoding what EncodeBase58Check produced succeeds and returns the
\* version and the payload that were encoded.
C5_RoundTrip ==
    (enc.stage = "decoded" /\ enc.encoded)
    => enc.result = [version |-> enc.version, payload |-> enc.payload, err |-> "nil"]

\* C5 witness: a round trip of version 0 with a payload of zero bytes.
C5_Witness ==
    /\ enc.stage = "decoded" /\ enc.encoded
    /\ enc.version = 0 /\ enc.payload = <<0, 0>>
    /\ enc.result.payload = <<0, 0>>

\* C6: DecodeBase58Check returns the too-short error when fewer than 5 bytes
\* decode, the checksum error when the last 4 bytes differ from the first 4
\* bytes of the double hash of the rest, both with version 0 and a nil
\* payload; it returns version and payload only when all 4 bytes match.
C6_NeverAcceptsBadChecksum ==
    enc.stage = "decoded"
    => LET d == Base58Decode(enc.text)
           n == Len(d)
       IN Bind(doubleSHA256(SubSeq(d, 1, n - 4)), LAMBDA sum :
          /\ n < 5 => enc.result = [version |-> 0, payload |-> NilBytes,
                                    err |-> "too short"]
          /\ (n >= 5 /\ \E i \in 1..4 : d[n - 4 + i] # sum[i])
                => enc.result = [version |-> 0, payload |-> NilBytes,
                                 err |-> "invalid checksum"]
          /\ enc.result.err = "nil"
                => /\ n >= 5
                   /\ \A i \in 1..4 : d[n - 4 + i] = sum[i]
                   /\ enc.result.version = d[1]
                   /\ enc.result.payload = SubSeq(d, 2, n - 4))

\* C6 witness: a text rejected for its checksum although only the last
\* checksum byte is wrong.
C6_Witness ==
    /\ enc.stage = "decoded"
    /\ enc.result.err = "invalid checksum"
    /\ LET d == Base58Decode(enc.text)
           n == Len(d)
       IN \A i \in 1..3 : d[n - 4 + i] = doubleSHA256(SubSeq(d, 1, n - 4))[i]

\* C7: every address addressToScriptPubKey accepts gets exactly the 25 bytes
\* 76 a9 14 || 20-byte payload || 88 ac for versions 0x00 and 0x6F, or the 23
\* bytes a9 14 || 20-byte payload || 87 for versions 0x05 and 0xC4; any other
\* version is rejected as an unsupported address type.
C7_ExactScript ==
    enc.stage = "script"
    => Bind(DecodeBase58Check(enc.text), LAMBDA d :
          /\ enc.script.err = "nil"
                => \/ /\ d.version \in {0, 111}
                      /\ Len(d.payload) = 20
                      /\ Len(enc.script.script) = 25
                      /\ enc.script.script = <<118, 169, 20>> \o d.payload \o <<136, 172>>
                   \/ /\ d.version \in {5, 196}
                      /\ Len(d.payload) = 20
                      /\ Len(enc.script.script) = 23
                      /\ enc.script.script = <<169, 20>> \o d.payload \o <<135>>
          /\ (d.err = "nil" /\ d.version \notin {0, 111, 5, 196})
                => enc.script.err = "unsupported address type")

IsLowerHex(s) == \A i \in 1..Len(s) : \E k \in 1..Len(HexDigits) : HexDigits[k] = s[i]

\* a string hex.DecodeString decodes: hex digits only, an even number of them
IsHexString(s) == Len(s) % 2 = 0 /\ \A i \in 1..Len(s) : IsHexChar(s[i])

\* C8 as claimed: Hash of every built transaction is 64 characters of 0-9a-f.
C8_TxidShape ==
    ret.op = "Hash" => Len(ret.value) = 64 /\ IsLowerHex(ret.value)

\* C8 amended: Hash of a built transaction is 64 characters of 0-9a-f when
\* the previous transaction id of every input is a hex string, and is the
\* empty string otherwise.
C8_TxidShapeIfHex ==
    ret.op = "Hash"
    => LET tx == TxValue(heap, txs[ret.tx])
       IN IF \A i \in 1..Len(tx.Inputs) : IsHexString(tx.Inputs[i].PrevTxID)
          THEN Len(ret.value) = 64 /\ IsLowerHex(ret.value)
          ELSE ret.value = <<>>

\* C8 witness: the hash of a transaction with two hex-identified inputs.
C8_Witness ==
    /\ ret.op = "Hash" /\ Len(ret.value) = 64
    /\ txs[ret.tx].Inputs.len = 2

\* C9 as claimed: with one input, whatever its arguments, and one output,
\* Build succeeds and Serialize succeeds with a hex string of even length.
C9_SerializeAlways ==
    /\ (ret.op = "Build" /\ Len(log.inputs) = 1 /\ Len(log.outputs) = 1)
          => ret.err = "nil"
    /\ (ret.op = "Serialize" /\ Len(log.inputs) = 1 /\ Len(log.outputs) = 1)
          => ret.err = "nil" /\ ret.value # <<>> /\ Len(ret.value) % 2 = 0

\* C9 amended: with one input and one output Build succeeds; Serialize
\* succeeds with a hex string of even length when the input's previous
\* transaction id is a hex string, and fails with the invalid-txid error and
\* an empty result otherwise.
C9_SerializeIfHex ==
    /\ (ret.op = "Build" /\ Len(log.inputs) = 1 /\ Len(log.outputs) = 1)
          => ret.err = "nil"
    /\ (ret.op = "Serialize" /\ Len(log.inputs) = 1 /\ Len(log.outputs) = 1)
          => IF IsHexString(log.inputs[1].PrevTxID)
             THEN /\ ret.err = "nil"
                  /\ ret.value # <<>> /\ Len(ret.value) % 2 = 0
                  /\ IsLowerHex(ret.value)
             ELSE ret.err = "invalid txid" /\ ret.value = <<>>

\* C9 witness: a one-input, one-output transaction serialized without error.
C9_Witness ==
    /\ ret.op = "Serialize" /\ ret.err = "nil"
    /\ Len(log.inputs) = 1 /\ Len(log.outputs) = 1
    /\ Len(ret.value) % 2 = 0 /\ Len(ret.value) > 0

\* a non-empty string of decimal digits
IsDecimal(s) == s # <<>> /\ \A i \in 1..Len(s) : IsDigit(s[i])

\* a segment without its hardened marker (' or h)
Unmarked(seg) ==
    IF HasSuffix(seg, <<"'">>) \/ HasSuffix(seg, <<"h">>)
    THEN SubSeq(seg, 1, Len(seg) - 1) ELSE seg

\* C10: DerivePath returns an error and no key when the path is empty, does
\* not start with m/, has an empty segment, or has a segment that is no
\* decimal number once the hardened marker is removed; m/ alone returns the
\* master key without deriving any child.
C10_RejectsMalformed ==
    derived.stage = "done"
    => LET path == derived.path
           r == derived.result
           segments == Split(SubSeq(path, 3, Len(path)), "/")
           rejected == r.err # "nil" /\ r.key = NoKey
       IN /\ path = <<>> => rejected
          /\ ~HasPrefix(path, <<"m", "/">>) => rejected
          /\ (HasPrefix(path, <<"m", "/">>) /\ Len(path) > 2
              /\ \E i \in 1..Len(segments) :
                     segments[i] = <<>> \/ ~IsDecimal(Unmarked(segments[i])))
                => rejected
          /\ path = <<"m", "/">>
                => /\ r.err = "nil"
                   /\ r.key = wallets[1].masterKey
                   /\ r.children = <<>>

\* C10 witness: the path m/44'//0, with its empty segment, has been rejected.
C10_Witness ==
    /\ derived.stage = "done"
    /\ derived.path = <<"m", "/", "4", "4", "'", "/", "/", "0">>
    /\ derived.result.err = "invalid path: empty segment"

\* the segments of a path that starts with m/
PathSegments(path) == Split(SubSeq(path, 3, Len(path)), "/")

\* the number a segment writes before its ' marker, as strconv reads it
SegmentNumber(seg) == ParseUint32(TrimSuffix(seg, <<"'">>))

\* C11: DerivePath returns an error for a hardened segment n' with n >= 2^31
\* and for a segment whose number does not fit 32 bits; when it succeeds every
\* child was derived at the index its segment writes (n + 2^31 for n', n for
\* n), hardened exactly when the segment is marked.
C11_IndexOverflow ==
    ( /\ derived.stage = "done"
      /\ HasPrefix(derived.path, <<"m", "/">>) /\ Len(derived.path) > 2
      /\ \A i \in 1..Len(PathSegments(derived.path)) :
             IsDecimal(TrimSuffix(PathSegments(derived.path)[i], <<"'">>)) )
    => LET segments == PathSegments(derived.path)
           r == derived.result
           marked(i) == HasSuffix(segments[i], <<"'">>)
           n(i) == SegmentNumber(segments[i])
       IN /\ (\E i \in 1..Len(segments) :
                  n(i).err # "nil" \/ (marked(i) /\ n(i).val[1] >= HalfLimb))
                => (r.err # "nil" /\ r.key = NoKey)
          /\ r.err = "nil"
                => \A i \in 1..Len(segments) :
                       /\ IsHardened(r.children[i]) <=> marked(i)
                       /\ marked(i) => r.children[i]
                                           = <<n(i).val[1] + HalfLimb, n(i).val[2]>>
                       /\ ~marked(i) => r.children[i] = n(i).val

\* a segment with its h marker written '
PrimeSegment(seg) ==
    IF HasSuffix(seg, <<"h">>) THEN SubSeq(seg, 1, Len(seg) - 1) \o <<"'">> ELSE seg

\* a path with every h marker written '
PrimeForm(path) ==
    <<"m">> \o Concat([i \in 1..Len(PathSegments(path)) |->
                          <<"/">> \o PrimeSegment(PathSegments(path)[i])])

\* C12: a path whose segments are numbers below 2^31 marked ', h or not at all
\* derives the key of the same path written with ' for every h, without error.
C12_BothMarkers ==
    ( /\ derived.stage = "done"
      /\ HasPrefix(derived.path, <<"m", "/">>) /\ Len(derived.path) > 2
      /\ \A i \in 1..Len(PathSegments(derived.path)) :
             LET seg == PathSegments(derived.path)[i]
             IN /\ IsDecimal(Unmarked(seg))
                /\ ParseUint32(Unmarked(seg)).err = "nil"
                /\ ParseUint32(Unmarked(seg)).val[1] < HalfLimb )
    => /\ derived.result.err = "nil"
       /\ derived.result = DerivePath(wallets[1].masterKey, PrimeForm(derived.path))

\* the hardened index n + 2^31 of a number n below 2^31
HardenedIndex(n) == <<n[1] + HalfLimb, n[2]>>

\* C13: an account returned by DeriveAccount has a coin type and an account
\* number below 2^31, a key reached from the master key by the three hardened
\* derivations purpose + 2^31, coinType + 2^31, account + 2^31 (purpose 44,
\* 49 or 84 by address type), and the path m/purpose'/coinType'/account'.
C13_HardenedAccount ==
    \A w \in WalletIds :
        wallets[w].acct.set
        => LET a == wallets[w].acct
               purpose == IF a.addressType = "P2PKH" THEN U32(44)
                          ELSE IF a.addressType = "P2SH" THEN U32(49)
                          ELSE U32(84)
               k1 == NewChildKey(wallets[w].masterKey, HardenedIndex(purpose))
               k2 == NewChildKey(k1.key, HardenedIndex(a.coinType))
               k3 == NewChildKey(k2.key, HardenedIndex(a.account))
           IN /\ a.coinType[1] < HalfLimb /\ a.account[1] < HalfLimb
              /\ k1.err = "nil" /\ k2.err = "nil" /\ k3.err = "nil"
              /\ a.key = k3.key
              /\ a.path = <<"m", "/">> \o FormatUint32(purpose) \o <<"'", "/">>
                              \o FormatUint32(a.coinType) \o <<"'", "/">>
                              \o FormatUint32(a.account) \o <<"'">>


SupportedTypes == {P2PKH, P2SH, P2WPKH}
SupportedNetworks == {Mainnet, Testnet, Regtest}

\* C14: PubKeyToAddress never silently defaults: with an address type other
\* than P2PKH, P2SH, P2WPKH or a network other than mainnet, testnet, regtest
\* it returns an error and the empty string, and an address is returned only
\* for one of the nine supported (type, network) pairs.
C14_NeverDefaults ==
    p2a.stage = "done" =>
        /\ (p2a.addrType \notin SupportedTypes \/ p2a.network \notin SupportedNetworks)
               => (p2a.result.err # "nil" /\ p2a.result.address = <<>>)
        /\ (p2a.result.address # <<>> \/ p2a.result.err = "nil")
               => (p2a.addrType \in SupportedTypes /\ p2a.network \in SupportedNetworks)

\* a P2PKH address was asked for a network the code does not know, and
\* another call on a supported pair returned an address
C14_Witness ==
    /\ p2a.stage = "done"
    /\ p2a.addrType = P2PKH
    /\ p2a.network = "signet"
    /\ Len(p2a.pubKey) = 33
    /\ p2a.result.err = "unsupported network"

\* C15: AttachScriptSig(tx, i, s) with 0 <= i < number of inputs changes only
\* the signature script of input i, which becomes s: version, locktime, the
\* number and order of inputs, every other input, input i's previous outpoint
\* and sequence, and all outputs are the same before and after.
C15_OnlySignatureScript ==
    [][(/\ msg'.op = "AttachScriptSig"
        /\ msg'.calls = msg.calls + 1
        /\ 0 <= msg'.idx
        /\ msg'.idx < Len(msg.tx.TxIn))
       => LET i == msg'.idx + 1
              old == msg.tx
              new == msg'.tx
          IN /\ msg'.panic = "nil"
             /\ new.Version = old.Version
             /\ new.LockTime = old.LockTime
             /\ Len(new.TxIn) = Len(old.TxIn)
             /\ \A j \in 1..Len(old.TxIn) : j # i => new.TxIn[j] = old.TxIn[j]
             /\ new.TxIn[i].PreviousOutPoint = old.TxIn[i].PreviousOutPoint
             /\ new.TxIn[i].Sequence = old.TxIn[i].Sequence
             /\ new.TxIn[i].SignatureScript = msg'.arg
             /\ new.TxOut = old.TxOut]_vars

\* the script made by SignP2PKH was attached to the second of two inputs and
\* the first input has none
C15_Witness ==
    /\ msg.op = "AttachScriptSig"
    /\ msg.panic = "nil"
    /\ msg.idx = 1
    /\ Len(msg.tx.TxIn) = 2
    /\ Len(msg.tx.TxOut) = 1
    /\ msg.arg # <<>>
    /\ msg.tx.TxIn[2].SignatureScript = msg.arg
    /\ msg.tx.TxIn[1].SignatureScript = <<>>

\* C16: no core operation crashes: SignP2PKH and AttachScriptSig called with
\* an input index outside 0..len(inputs)-1 return without a panic.
C16_NoPanic == msg.panic = "nil"

\* what the builder holds: its version, the inputs and outputs read through
\* its slices, and its locktime
BuilderValue(h, b) ==
    [version |-> b.version, inputs |-> Deref(h.inputs, b.inputs),
     outputs |-> Deref(h.outputs, b.outputs), locktime |-> b.locktime]

\* C17: AddOutput is all-or-nothing: when the address does not convert to a
\* locking script it returns an 'invalid address' error and the builder's
\* inputs, outputs, version and locktime are unchanged; when it converts,
\* exactly one output (the amount, the converted script) is appended at the
\* end of the outputs and nothing else changes.
C17_AllOrNothing ==
    [][ret'.op = "AddOutput"
       => LET old == BuilderValue(heap, tb)
              new == BuilderValue(heap', tb')
          IN Bind(scriptPubKeyOf(ret'.value[1]), LAMBDA conv :
                IF conv.err # "nil"
                THEN ret'.err = "invalid address" /\ new = old
                ELSE /\ ret'.err = "nil"
                     /\ new = [old EXCEPT !.outputs =
                                  Append(@, [Amount |-> ret'.value[2],
                                             ScriptPubKey |-> conv.script])])]_vars

\* C17 witness: an address is rejected by a builder that holds an input and
\* two different outputs, the second appended after the first, and that has
\* returned a transaction.
C17_Witness ==
    /\ ret.op = "AddOutput"
    /\ ret.err = "invalid address"
    /\ ret.value[1] = AddrInvalid
    /\ tb.inputs.len >= 1
    /\ tb.outputs.len = 2
    /\ Deref(heap.outputs, tb.outputs) = LoggedOutputs
    /\ LoggedOutputs[1] # LoggedOutputs[2]
    /\ Len(txs) >= 1

\* the first k elements cover the target: their sum, as a natural number,
\* is >= target
Covers(utxos, k, target) == AtLeast(MathSum(SubSeq(utxos, 1, k)), target)

\* k is the smallest number of leading elements that covers the target
ShortestCover(utxos, k, target) ==
    /\ k >= 1 /\ k <= Len(utxos)
    /\ Covers(utxos, k, target)
    /\ \A j \in 0..(k - 1) : ~Covers(utxos, j, target)

AmountsOf(utxos) == [i \in 1..Len(utxos) |-> utxos[i].Amount]

\* C18: largest-first monotonicity: for every list and target for which both
\* algorithms succeed, LargestFirst selects at most as many UTXOs as FIFO.
C18_LargestFirstMonotone ==
    (sel.stage = "done" /\ sel.algorithm = AlgorithmLargestFirst)
    => LET fifo == SelectUTXOs(<<sel.utxos>>, 1, sel.target, AlgorithmFIFO).result
       IN (sel.result.err = "nil" /\ fifo.err = "nil")
              => Len(sel.result.selected) <= Len(fifo.selected)

\* C19: on success with AlgorithmFIFO the returned UTXOs are the first k
\* elements of the input list in input order, k being the smallest number
\* such that the sum of the first k amounts is >= target.
C19_FifoShortestPrefix ==
    (sel.stage = "done" /\ sel.algorithm = AlgorithmFIFO /\ sel.result.err = "nil")
    => /\ sel.result.selected = SubSeq(sel.utxos, 1, Len(sel.result.selected))
       /\ ShortestCover(sel.utxos, Len(sel.result.selected), sel.target)

\* C20: after SelectUTXOs with either algorithm, success or failure, the
\* caller's list has the same elements in the same order; and on success the
\* result of LargestFirst is the shortest covering prefix of the list sorted
\* by amount descending.
C20_InputUntouched ==
    [][(sel.stage = "input" /\ sel'.stage = "done")
       => /\ sel'.utxos = sel.utxos
          /\ (sel.algorithm = AlgorithmLargestFirst /\ sel'.result.err = "nil")
                 => LET sorted == SortDesc(sel.utxos, Len(sel.utxos))
                        k == Len(sel'.result.selected)
                    IN /\ \A i \in 1..k : \E j \in 1..Len(sel.utxos) :
                              sel'.result.selected[i] = sel.utxos[j]
                       /\ AmountsOf(sel'.result.selected) = SubSeq(AmountsOf(sorted), 1, k)
                       /\ ShortestCover(sorted, k, sel.target)]_vars

\* the two bytes of a limb, low byte first
LimbBytes(l) == <<l % Byte, l \div Byte>>

\* the value of bytes read least significant first, as a uint64
FromLittleEndian(b) ==
    LET byte(i) == IF i <= Len(b) THEN b[i] ELSE 0
    IN <<byte(7) + Byte * byte(8), byte(5) + Byte * byte(6),
         byte(3) + Byte * byte(4), byte(1) + Byte * byte(2)>>

\* reading a var-int by the prefix scheme: the value and the bytes consumed
ReadVarInt(b) ==
    IF b[1] < 253 THEN [n |-> U64(b[1]), used |-> 1]
    ELSE IF b[1] = 253 THEN [n |-> FromLittleEndian(SubSeq(b, 2, 3)), used |-> 3]
    ELSE IF b[1] = 254 THEN [n |-> FromLittleEndian(SubSeq(b, 2, 5)), used |-> 5]
    ELSE [n |-> FromLittleEndian(SubSeq(b, 2, 9)), used |-> 9]

\* C21: writeVarInt(n) emits 1 byte (n itself) for n < 0xFD; 0xFD and n as 2
\* bytes little-endian for 0xFD <= n <= 0xFFFF; 0xFE and 4 bytes little-endian
\* for 0x10000 <= n <= 0xFFFFFFFF; 0xFF and 8 bytes little-endian otherwise;
\* and reading the emitted bytes by the same scheme gives n back.
C21_VarIntScheme ==
    (num.stage = "done" /\ num.op = "writeVarInt")
    => LET n == num.n
           out == num.out
       IN /\ (n[1] = 0 /\ n[2] = 0 /\ n[3] = 0 /\ n[4] < 253) => out = <<n[4]>>
          /\ (n[1] = 0 /\ n[2] = 0 /\ n[3] = 0 /\ n[4] >= 253)
                 => out = <<253>> \o LimbBytes(n[4])
          /\ (n[1] = 0 /\ n[2] = 0 /\ n[3] > 0)
                 => out = <<254>> \o LimbBytes(n[4]) \o LimbBytes(n[3])
          /\ (n[1] > 0 \/ n[2] > 0)
                 => out = <<255>> \o LimbBytes(n[4]) \o LimbBytes(n[3])
                                  \o LimbBytes(n[2]) \o LimbBytes(n[1])
          /\ ReadVarInt(out).n = n
          /\ ReadVarInt(out).used = Len(out)

\* 0xFD itself was written, as three bytes
C21_Witness ==
    /\ num.stage = "done" /\ num.op = "writeVarInt"
    /\ num.n = U64(253)
    /\ num.out = <<253, 253, 0>>

\* C22: EstimateTransactionSize(i, o) = 10 + 148*i + 34*o, and
\* CalculateFee(i, o, r) is that size times r as an integer product, with no
\* wrap-around of the 64-bit result; CalculateFee(1,1,1) = 192 and
\* CalculateFee(2,2,10) = 3740.
C22_FeeFormula ==
    (num.stage = "done" /\ num.op = "CalculateFee")
    => /\ num.size = 10 + 148 * num.inputCount + 34 * num.outputCount
       /\ WMulCarry(num.n, num.size) = <<0, num.out>>
       /\ (num.inputCount = 1 /\ num.outputCount = 1 /\ num.n = U64(1)) => num.out = U64(192)
       /\ (num.inputCount = 2 /\ num.outputCount = 2 /\ num.n = U64(10))
              => num.out = U64(3740)

\* a transport or HTTP-status failure
TransportOrStatus(answer) ==
    (~answer.sent /\ answer.body = "none") \/ (answer.sent /\ answer.status # 200)

\* C23: with a client created by NewClient, one CallRPC sends at most 3 HTTP
\* requests, 1 s apart, when every attempt fails with a transport or
\* HTTP-status error, and then returns 'max retries exceeded'; when the k-th
\* attempt (k <= 3) succeeds it returns that result after exactly k requests.
C23_RetryBound ==
    (rpc.fromNewClient /\ rpc.marshals
        /\ \A i \in 1..(Len(rpc.answers) - 1) : TransportOrStatus(rpc.answers[i]))
    => /\ rpc.requests <= 3
       /\ rpc.sleeps <= 2
       /\ (rpc.stage = "returned" /\ TransportOrStatus(rpc.answers[Len(rpc.answers)]))
              => rpc.err = "max retries exceeded"
       /\ (rpc.stage = "returned" /\ rpc.err = "nil")
              => (rpc.result = "success" /\ rpc.requests = Len(rpc.answers))

\* a failure that CallRPC answers with another attempt: no request sent
\* (marshalling or the creation of the request failed), transport (no
\* connection, or the body could not be read), HTTP status, parse
Retried(answer) ==
    \/ ~answer.sent
    \/ answer.body = "unreadable"
    \/ answer.status # 200
    \/ answer.body = "garbage"

\* C24: when an attempt receives a JSON-RPC error object, CallRPC returns that
\* *RPCError at once, makes no further attempt and does not wrap it as 'max
\* retries exceeded'; only transport, HTTP-status, marshal and parse failures
\* lead to another attempt; the loop ends after at most maxRetries+1 attempts.
C24_NoRetryOfRPCError ==
    LET n == Len(rpc.answers)
    IN /\ n <= rpc.client.maxRetries + 1
       /\ rpc.attempt <= rpc.client.maxRetries + 1
       /\ \A i \in 1..(n - 1) : Retried(rpc.answers[i])
       /\ (n > 0 /\ rpc.answers[n] = [sent |-> TRUE, status |-> 200, body |-> "error"])
              => /\ rpc.stage = "returned"
                 /\ rpc.err = RPCErrorValue
                 /\ rpc.wrapped = "nil"
                 /\ rpc.result = "nil"
       /\ (rpc.stage = "loop" /\ n > 0) => Retried(rpc.answers[n])
       /\ rpc.stage = "returned"
              => (rpc.err = "max retries exceeded"
                     <=> (n = rpc.client.maxRetries + 1 /\ Retried(rpc.answers[n])))

\* an error object met on the second attempt was returned as it is
C24_Witness ==
    /\ rpc.stage = "returned"
    /\ Len(rpc.answers) = 2
    /\ rpc.answers[1].status = 503
    /\ rpc.answers[2] = [sent |-> TRUE, status |-> 200, body |-> "error"]
    /\ rpc.err = RPCErrorValue
    /\ rpc.requests = 2

\* C25: once Unsubscribe(eventType) has returned, no handler that was
\* subscribed to eventType is started afterwards, for every interleaving of
\* Publish, Subscribe and Unsubscribe, a Publish that began before the
\* Unsubscribe included.
C25_UnsubscribeEffective == bus.late = {}

\* what C26 asks of one Publish call: from the read on, the slice holds the
\* handlers subscribed to the type at the read, each once and no other; a
\* goroutine is created per handler, in the order of the slice; Publish has
\* returned only when every handler of the slice was invoked and returned
Delivered(pub) ==
    /\ pub.pc \in {"unlocked", "go", "wait", "done"}
           => /\ {pub.handlers[i] : i \in 1..Len(pub.handlers)} = pub.subscribed
              /\ Cardinality(pub.subscribed) = Len(pub.handlers)
              /\ \A i \in 1..Len(pub.handlers) :
                     bus.handlers[pub.handlers[i]].type = pub.event
    /\ pub.pc \in {"read", "unlocked"} => pub.runs = <<>>
    /\ Len(pub.runs) <= Len(pub.handlers)
    /\ pub.pc = "wait" => Len(pub.runs) = Len(pub.handlers)
    /\ pub.pc = "done"
           => /\ Len(pub.runs) = Len(pub.handlers)
              /\ \A i \in 1..Len(pub.runs) : pub.runs[i] \in {"returned", "error"}
              /\ pub.err # "nil"
                     <=> \E i \in 1..Len(pub.handlers) :
                             bus.handlers[pub.handlers[i]].kind = "fails"

\* C26: Publish(event) invokes each handler subscribed to the event's type
\* when it reads the subscriber list exactly once, invokes no handler of
\* another type, returns only after all those handlers have returned, and
\* returns an error exactly when at least one handler returned an error.
C26_Delivery == \A p \in 1..Len(bus.pubs) : Delivered(bus.pubs[p])

\* C26 for an event that is not nil: the same, Publish(nil) returning an
\* error of its own before it reads the subscribers.
C26_DeliveryOfEvent ==
    \A p \in 1..Len(bus.pubs) :
        IF bus.pubs[p].event = NilEvent
        THEN /\ bus.pubs[p].pc = "done"
             /\ bus.pubs[p].err = "event cannot be nil"
             /\ bus.pubs[p].runs = <<>>
        ELSE Delivered(bus.pubs[p])

\* a Publish returned an error after its two handlers returned, one of them
\* with an error
C26_Witness ==
    \E p \in 1..Len(bus.pubs) :
        /\ bus.pubs[p].pc = "done"
        /\ bus.pubs[p].runs = <<"returned", "error">>
        /\ bus.pubs[p].err # "nil"


\* every Register call has returned
RegistryQuiet == \A c \in 1..Len(reg.calls) : reg.calls[c].pc = "done"

\* the Register calls on chainID that returned nil
Registered(chainID) ==
    {c \in 1..Len(reg.calls) :
        reg.calls[c].chainID = chainID /\ reg.calls[c].pc = "done" /\ reg.calls[c].err = "nil"}

\* a Register call that found its chainID bound fails and leaves the binding
RejectsSecond ==
    \A c \in 1..Len(reg.calls) :
        (reg.calls[c].pc = "done" /\ reg.calls[c].was # NoAdapter)
        => /\ reg.calls[c].err = "chain adapter already registered"
           /\ reg.calls[c].now = reg.calls[c].was

\* once the Register calls have returned (and nothing was unregistered),
\* List has each registered chainID once, and Has agrees with Get
QueriesAgree ==
    (RegistryQuiet /\ reg.unregs = 0)
    => /\ \A chains \in List(reg.adapters) : \A id \in ChainIDs :
              Registered(id) # {}
              => Cardinality({i \in 1..Len(chains) : chains[i] = id}) = 1
       /\ \A id \in ChainIDs : Has(reg.adapters, id) <=> Get(reg.adapters, id).err = "nil"

\* C27 as stated: each chain ID is bound at most once; a Register on a bound
\* chainID fails with "already registered" and keeps the adapter; on every
\* interleaving exactly one Register call per distinct chainID succeeds; after
\* the calls List has each registered chainID once and Has agrees with Get.
C27_BindsOnce ==
    /\ RejectsSecond
    /\ QueriesAgree
    /\ (RegistryQuiet /\ reg.unregs = 0)
       => \A c \in 1..Len(reg.calls) :
              Cardinality(Registered(reg.calls[c].chainID)) = 1

\* C27, amended: the same, where exactly one call succeeds for each
\* non-empty chainID that some call passes together with a non-nil adapter,
\* and a call with an empty chainID or a nil adapter fails and binds nothing.
C27_BindsValidOnce ==
    /\ RejectsSecond
    /\ QueriesAgree
    /\ \A c \in 1..Len(reg.calls) :
           (reg.calls[c].chainID = "" \/ reg.calls[c].adapter = "nil")
           => /\ reg.calls[c].pc = "done"
              /\ reg.calls[c].err \in {"chain ID cannot be empty", "adapter cannot be nil"}
              /\ reg.calls[c].now = NoAdapter
    /\ (RegistryQuiet /\ reg.unregs = 0)
       => \A c \in 1..Len(reg.calls) :
              (reg.calls[c].chainID # "" /\ reg.calls[c].adapter # "nil")
              => Cardinality(Registered(reg.calls[c].chainID)) = 1

\* two Register calls on one chainID were in flight together, and both returned
C27_Witness ==
    /\ RegistryQuiet
    /\ reg.unregs = 0
    /\ \E c, d \in 1..Len(reg.calls) :
           /\ c < d
           /\ reg.calls[c].chainID = reg.calls[d].chainID
           /\ reg.calls[c].adapter # reg.calls[d].adapter
           /\ reg.calls[c].err = "chain adapter already registered"
           /\ reg.calls[d].err = "nil"
           /\ reg.adapters[reg.calls[d].chainID] = reg.calls[d].adapter
    /\ reg.last.op = "List" /\ Len(reg.last.chains) = 1

\* C28: transactions built by one builder do not alias: when the signature
\* script of an input of one of them is set, every field of each other one,
\* and with them its Serialize and Hash results, stay as they were.
C28_NoAliasing ==
    [][\A i \in 1..Len(txs) :
           (ret'.op = "ScriptSig" /\ ret'.tx = i)
           => \A j \in 1..Len(txs) :
                  j # i
                  => /\ TxValue(heap', txs[j]) = TxValue(heap, txs[j])
                     /\ Serialize(TxValue(heap', txs[j])) = Serialize(TxValue(heap, txs[j]))
                     /\ Hash(TxValue(heap', txs[j])) = Hash(TxValue(heap, txs[j]))]_vars

\* C29: SelectUTXOs on a non-empty list with a target > 0 and a known
\* algorithm fails with insufficient funds only if the sum of all amounts, as
\* a natural number, is below the target, and the amount it reports as 'have'
\* is that sum; whenever the sum is at least the target the call succeeds.
C29_InsufficientOnlyIfShort ==
    ( /\ sel.stage = "done"
      /\ sel.utxos # <<>>
      /\ sel.target # WZero(4)
      /\ sel.algorithm \in {AlgorithmFIFO, AlgorithmLargestFirst} )
    => /\ sel.result.err = "insufficient funds"
            => /\ Below(MathSum(sel.utxos), sel.target)
               /\ MathSum(sel.utxos) = <<0, sel.result.have>>
       /\ AtLeast(MathSum(sel.utxos), sel.target) => sel.result.err = "nil"

\* the same on lists whose amounts sum to less than 2^64
C29_WithoutOverflow ==
    ( /\ sel.stage = "done"
      /\ sel.utxos # <<>>
      /\ sel.target # WZero(4)
      /\ sel.algorithm \in {AlgorithmFIFO, AlgorithmLargestFirst}
      /\ MathSum(sel.utxos)[1] = 0 )
    => /\ sel.result.err = "insufficient funds"
            => /\ Below(MathSum(sel.utxos), sel.target)
               /\ MathSum(sel.utxos) = <<0, sel.result.have>>
       /\ AtLeast(MathSum(sel.utxos), sel.target) => sel.result.err = "nil"

\* both functions were called on the path
BothCalled == derived.stage = "done" /\ derived.valid # "none"

\* C30: the validator and the parser accept the same paths: ValidatePath(p)
\* returns nil if and only if DerivePath(p) on a valid wallet succeeds.
C30_SameLanguage ==
    BothCalled => (derived.valid = "nil" <=> derived.result.err = "nil")

\* where the two differ: on "m/" alone, on a segment marked with h, and on a
\* number that does not fit 32 bits; on every other path they agree
C30_SameLanguageElsewhere ==
    ( /\ BothCalled
      /\ derived.path # <<"m", "/">>
      /\ \A i \in 1..Len(PathSegments(derived.path)) :
             LET seg == PathSegments(derived.path)[i]
             IN /\ ~HasSuffix(seg, <<"h">>)
                /\ IsDecimal(TrimSuffix(seg, <<"'">>)) => SegmentNumber(seg).err = "nil" )
    => (derived.valid = "nil" <=> derived.result.err = "nil")
====
